---- MODULE Spec2Model ----
(***************************************************************************)
(* Hall of Eternal Champions connector (judgement-bot).                    *)
(*                                                                         *)
(* The model follows HallOfEternalChampionsClient: crawl_pages, the        *)
(* request_handler closure and _extract_hero_abilities.  One action is the *)
(* code a coroutine runs between two suspension points (await); awaits     *)
(* that only touch the rendered page of the same handler and follow one    *)
(* another without a statement on shared state in between are taken in one *)
(* action that chooses which of them, if any, raised.                      *)
(*                                                                         *)
(* The crawler (crawlee's PlaywrightCrawler) and the rendered pages are    *)
(* the environment: the crawler hands any queued request to the handler,   *)
(* several handlers may be in flight on the one event loop, a handler that *)
(* raises is retried or given up.  A page answers with one of a small      *)
(* catalogue of layouts; controls may be invisible, calls may raise.       *)
(***************************************************************************)
EXTENDS Integers, Sequences, FiniteSets, TLC

(***************************************************************************)
(* Bounds of the exploration.                                              *)
(***************************************************************************)
\* handlers the crawler keeps in flight at once
MaxConcurrency == 2
\* requests the crawler dispatches in one run (max_requests_per_crawl is
\* 1000 in the source; the model explores runs cut at this budget)
MaxVisits == 3
\* irregular answers of the environment, over all the runs of a client: a
\* raised exception, a control that is not visible/enabled, a click that
\* opens no overlay
MaxFaults == 1

(***************************************************************************)
(* URLs.  A URL is a sequence of tokens, so that str.startswith is the     *)
(* prefix relation and `"/monsters/" in url` is a contiguous sub-sequence. *)
(***************************************************************************)
BASE_URL == <<"https://www.hallofeternalchampions.com">>

\* CATEGORIES, in the dict's insertion order
CATEGORIES ==
    << [name |-> "gods",            url |-> BASE_URL \o <<"/", "gods">>],
       [name |-> "heroes",          url |-> BASE_URL \o <<"/", "heroes">>],
       [name |-> "monsters",        url |-> BASE_URL \o <<"/", "monsters">>],
       [name |-> "summons",         url |-> BASE_URL \o <<"/", "summons">>],
       [name |-> "artefacts",       url |-> BASE_URL \o <<"/", "artefacts">>],
       [name |-> "gamedefinitions", url |-> BASE_URL \o <<"/", "gamedefinitions">>],
       [name |-> "conditions",      url |-> BASE_URL \o <<"/", "pages", "/", "conditions">>],
       [name |-> "faqs",            url |-> BASE_URL \o <<"/", "faqs">>],
       [name |-> "errata",          url |-> BASE_URL \o <<"/", "errata">>] >>

CategoryValues == { CATEGORIES[k].url : k \in DOMAIN CATEGORIES }

CategoryUrl(name) ==
    CATEGORIES[CHOOSE k \in DOMAIN CATEGORIES : CATEGORIES[k].name = name].url

\* str.startswith
StartsWith(s, p) ==
    /\ Len(p) <= Len(s)
    /\ \A k \in 1..Len(p) : s[k] = p[k]

\* `sub in s` for strings
Contains(s, sub) ==
    \E k \in 0..(Len(s) - Len(sub)) : \A j \in 1..Len(sub) : s[k + j] = sub[j]

\* variant: the category of a URL that equals a category root, "unknown" for
\* every other URL
CategoryOfRootOnly(url) ==
    LET hits == { k \in DOMAIN CATEGORIES : url = CATEGORIES[k].url }
    IN  IF hits = {} THEN "unknown"
        ELSE CATEGORIES[CHOOSE k \in hits : \A j \in hits : k <= j].name

\* _get_category_from_url: the first category, in dict order, whose root the
\* URL starts with
get_category_from_url(url) ==
    LET hits == { k \in DOMAIN CATEGORIES : StartsWith(url, CATEGORIES[k].url) }
    IN  IF hits = {} THEN "unknown"
        ELSE CATEGORIES[CHOOSE k \in hits : \A j \in hits : k <= j].name

\* is_list_page = url in self.CATEGORIES.values()
is_list_page(url) == url \in CategoryValues

\* the category written into an entity reference
EntityCategory(url) ==
    IF Contains(url, <<"/", "monsters", "/">>) THEN "monster"
    ELSE IF Contains(url, <<"/", "summons", "/">>) THEN "summon"
    ELSE "hero"

(***************************************************************************)
(* The site.  A listing page carries anchors; an href starting with "/" is *)
(* relative.  Every page has an h1, whose text is the last token of its    *)
(* URL here (two pages, a hero and a summon, share the name "aria").       *)
(***************************************************************************)
Anchors(url) ==
    IF url = CategoryUrl("heroes")
      THEN << <<"/", "heroes", "/", "aria">>,
              BASE_URL \o <<"/", "heroes", "/", "brok">>,
              <<"/", "heroes">>,
              <<"/", "gods", "/", "zed">>,
              BASE_URL \o <<"/", "heroes", "/", "aria">> >>
    ELSE IF url = CategoryUrl("summons")
      THEN << <<"/", "summons", "/", "aria">>, <<"https://elsewhere.example">> >>
    ELSE IF url = CategoryUrl("gods")
      THEN << <<"/", "gods", "/", "zed">> >>
    ELSE IF url = CategoryUrl("faqs")
      THEN << <<"/", "faqs", "/", "rules">> >>
    ELSE IF url = CategoryUrl("artefacts")
      THEN << <<"/", "artefacts", "/", "orb">> >>
    ELSE <<>>

\* the elements of a list
Range(s) == { s[k] : k \in DOMAIN s }

\* lines 72-76: a relative href is resolved against BASE_URL
full_url(href) == IF StartsWith(href, <<"/">>) THEN BASE_URL \o href ELSE href

\* variant: the listing page itself is kept among the links
LinksWithRoot(hrefs, base_category_url) ==
    SelectSeq([k \in DOMAIN hrefs |-> full_url(hrefs[k])],
              LAMBDA url : StartsWith(url, base_category_url))

\* variant: every anchor is kept, whatever it points to
LinksUnfiltered(hrefs, base_category_url) ==
    [k \in DOMAIN hrefs |-> full_url(hrefs[k])]

\* lines 68-80: the list `links`, one entry per anchor that is kept
Links(hrefs, base_category_url) ==
    SelectSeq([k \in DOMAIN hrefs |-> full_url(hrefs[k])],
              LAMBDA url : StartsWith(url, base_category_url) /\ url # base_category_url)

\* _extract_list_page_links on markup whose anchors, in document order,
\* have these hrefs: set(links), which the caller receives as a list in the
\* order the set iterates
extract_list_page_links(hrefs, base_category_url) ==
    Range(Links(hrefs, base_category_url))

\* every URL a run can meet
URLs ==
    CategoryValues \cup
    UNION { extract_list_page_links(Anchors(r), r) : r \in CategoryValues }

\* h1 of the page
PageTitle(url) == url[Len(url)]

(***************************************************************************)
(* Rendered detail pages.  A page is a sequence of blocks; a block is the  *)
(* parent element of its h2 headings and holds button[type=button]         *)
(* elements.  A button has the text BeautifulSoup reads (get_text) and the *)
(* label Playwright reads (inner_text, after CSS); both already stripped.  *)
(***************************************************************************)
Btn(t, l) == [text |-> t, label |-> l]

Layouts ==
    << \* an active ability under its heading, a control outside any
       \* ability heading, and the description control
       << [headings |-> <<"Active Abilities">>,
           buttons  |-> <<Btn("Strike (1AP)", "Strike (1AP)")>>],
          [headings |-> <<>>,
           buttons  |-> <<Btn("Ward", "Ward"), Btn("Full Description", "Full Description")>>] >>,
       \* two headings in one parent element, the same control twice
       << [headings |-> <<"Innate Abilities", "Combat Manoeuvres">>,
           buttons  |-> <<Btn("Strike (1AP)", "Strike (1AP)"),
                          Btn("Strike (1AP)", "Strike (1AP)")>>] >>,
       \* a control without a label, a label rendered in upper case
       << [headings |-> <<"Weapons">>,
           buttons  |-> <<Btn("", "")>>],
          [headings |-> <<"Active Abilities">>,
           buttons  |-> <<Btn("Ward", "WARD"), Btn("Ward", "Ward"),
                          Btn("Strike (1AP)", "Strike (1AP)")>>] >> >>

\* the layout of a detail page
LayoutOf(url) ==
    IF url = BASE_URL \o <<"/", "heroes", "/", "aria">> THEN Layouts[1]
    ELSE IF url = BASE_URL \o <<"/", "heroes", "/", "brok">> THEN Layouts[2]
    ELSE Layouts[3]

\* text of the overlay a click on a control of the page opens
OverlayOf(url) ==
    IF url = BASE_URL \o <<"/", "heroes", "/", "aria">>
      THEN "Deal 2 damage. Cost: 2F" ELSE "Passive."

\* str.lower() on the labels of the catalogue
Lower(label) ==
    CASE label = "Strike (1AP)"     -> "strike (1ap)"
      [] label = "Ward"             -> "ward"
      [] label = "WARD"             -> "ward"
      [] label = "Full Description" -> "full description"
      [] label = "Fate"             -> "fate"
      [] label = "Stunned"          -> "stunned"
      [] label = "Orb"              -> "orb"
      [] OTHER                      -> label

\* "description" in s, for lower-cased s
HasDescription(s) == s = "full description"

\* re.search(r"Cost:\s*([^\n]+)", ability_text), group 1 stripped; "" if none
CostLine(text) == IF text = "Deal 2 damage. Cost: 2F" THEN "2F" ELSE ""

\* re.search(r"\((\d+(?:AP|F|S))\)", ability_title), group 1; "" if none
ParenCost(title) == IF title = "Strike (1AP)" THEN "1AP" ELSE ""

\* all button[type=button] elements of the page, in document order
AllButtons(layout) ==
    LET RECURSIVE flat(_)
        flat(bs) == IF bs = <<>> THEN <<>> ELSE Head(bs).buttons \o flat(Tail(bs))
    IN  flat(layout)

\* variant: the kind of a combat manoeuvre under a name no list is kept for
HeadingTypeShort(heading) ==
    CASE heading = "Innate Abilities"  -> "innate"
      [] heading = "Active Abilities"  -> "active"
      [] heading = "Combat Manoeuvres" -> "combat"
      [] OTHER                         -> ""

\* the ability type a heading gives, "" for a heading that is skipped
HeadingType(heading) ==
    CASE heading = "Innate Abilities"  -> "innate"
      [] heading = "Active Abilities"  -> "active"
      [] heading = "Combat Manoeuvres" -> "combat_manoeuvre"
      [] OTHER                         -> ""

\* dict assignment d[k] = v on a function with a finite domain
DictPut(d, k, v) == [x \in (DOMAIN d) \cup {k} |-> IF x = k THEN v ELSE d[x]]

\* button_to_type: for every h2 in document order, every button under the
\* h2's parent whose text is non-empty and is not a description label
ButtonToType(layout) ==
    LET RECURSIVE buttons(_, _, _), headings(_, _, _), blocks(_, _)
        buttons(m, bs, type) ==
            IF bs = <<>> THEN m
            ELSE LET button_text == Head(bs).text
                 IN  buttons(IF button_text # "" /\ ~HasDescription(Lower(button_text))
                               THEN DictPut(m, button_text, type) ELSE m,
                             Tail(bs), type)
        headings(m, hs, bs) ==
            IF hs = <<>> THEN m
            ELSE headings(IF HeadingType(Head(hs)) = "" THEN m
                          ELSE buttons(m, bs, HeadingType(Head(hs))),
                          Tail(hs), bs)
        blocks(m, ls) ==
            IF ls = <<>> THEN m
            ELSE blocks(headings(m, Head(ls).headings, Head(ls).buttons), Tail(ls))
    IN  blocks(<<>>, layout)

\* button_to_type.get(ability_title, "innate")
AbilityType(button_to_type, ability_title) ==
    IF ability_title \in DOMAIN button_to_type THEN button_to_type[ability_title]
    ELSE "innate"

\* cost: the "Cost:" line of the overlay, else the parenthesised cost of the title
Cost(ability_text, ability_title) ==
    IF CostLine(ability_text) # "" THEN CostLine(ability_text)
    ELSE ParenCost(ability_title)

\* hashlib.sha256(x).hexdigest(): injective on the model's inputs
Sha256(x) == <<"sha256", x>>

\* ability_title.lower().replace(' ', '-').replace('(', '').replace(')', '')
Slug(title) ==
    CASE title = "Strike (1AP)" -> "strike-1ap"
      [] title = "Ward"         -> "ward"
      [] title = "WARD"         -> "ward"
      [] OTHER                  -> title

(***************************************************************************)
(* The Consolidation Store: self._ability_documents, a dict.  A dict is a  *)
(* sequence of (key, value) entries in insertion order.                    *)
(***************************************************************************)
DictHas(d, key) == \E k \in DOMAIN d : d[k].key = key

DictIndex(d, key) == CHOOSE k \in DOMAIN d : d[k].key = key

DictGet(d, key) == d[DictIndex(d, key)].value

\* d[key] = value: replaces the value of an existing key, else appends
DictSet(d, key, value) ==
    IF DictHas(d, key)
      THEN [d EXCEPT ![DictIndex(d, key)] = [key |-> key, value |-> value]]
      ELSE Append(d, [key |-> key, value |-> value])

\* list(d.values())
DictValues(d) == [k \in DOMAIN d |-> d[k].value]

entity_ref(hero_name, url) ==
    [name |-> hero_name, url |-> url, category |-> EntityCategory(url)]

\* variant: a membership test that never finds the element
NeverInList(x, list) == FALSE

\* x in list
InList(x, list) == \E k \in DOMAIN list : list[k] = x

\* variant: a key per title and page
AbilityKeyPerPage(ability_title, url) == <<ability_title, url>>

\* the key under which an ability is stored
AbilityKey(ability_title, url) == ability_title

\* variant: a membership test on a view of the store that holds only the
\* records the testing page itself is listed in
StaleView(docs, url) ==
    SelectSeq(docs, LAMBDA e :
        \E k \in DOMAIN e.value.entities : e.value.entities[k].url = url)

\* the dict the membership test reads: self._ability_documents itself, as it
\* is when the test runs (no await between the test and the update)
StoreView(docs, url) == docs

\* variant: every capture rewrites the record of its title
RecordAbilityOverwrite(docs, ability_title, ability_text, ability_type, cost, hero_name, url) ==
    LET key == ability_title
        ref == entity_ref(hero_name, url)
        entities == IF DictHas(docs, key) THEN DictGet(docs, key).entities ELSE <<>>
    IN  DictSet(docs, key,
          [id       |-> Sha256(ability_title),
           url      |-> <<"#ability-", Slug(ability_title)>>,
           title    |-> ability_title,
           text     |-> ability_text,
           category |-> ability_type,
           cost     |-> cost,
           entities |-> IF \E k \in DOMAIN entities : entities[k] = ref
                          THEN entities ELSE Append(entities, ref)])

\* variant: a title already in the store is left as it is
RecordAbilityFirstOnly(docs, ability_title, ability_text, ability_type, cost, hero_name, url) ==
    IF DictHas(docs, ability_title) THEN docs
    ELSE RecordAbilityOverwrite(docs, ability_title, ability_text, ability_type,
                                cost, hero_name, url)

\* "Add or update consolidated ability document"
RecordAbility(docs, ability_title, ability_text, ability_type, cost, hero_name, url) ==
    LET key == AbilityKey(ability_title, url)
    IN  IF DictHas(StoreView(docs, url), key)
          THEN LET existing_doc == DictGet(docs, key)
                   ref == entity_ref(hero_name, url)
               IN  IF ~InList(ref, existing_doc.entities)
                     THEN DictSet(docs, key,
                            [existing_doc EXCEPT !.entities = Append(@, ref)])
                     ELSE docs
          ELSE DictSet(docs, key,
                 [id       |-> Sha256(ability_title),
                  url      |-> <<"#ability-", Slug(ability_title)>>,
                  title    |-> ability_title,
                  text     |-> ability_text,
                  category |-> ability_type,
                  cost     |-> cost,
                  entities |-> <<entity_ref(hero_name, url)>>])

(***************************************************************************)
(* Page records.                                                           *)
(***************************************************************************)
\* doc["category"] as the category parsers set it; "" when the fallback
\* (_extract_common_fields alone) sets none
PageCategory(url, category) ==
    CASE category = "gods"            ->
           IF Contains(url, <<"/", "gods", "/">>) THEN "god" ELSE "tribe"
      [] category = "heroes"          -> "hero"
      [] category \in {"monsters", "summons"} ->
           IF Contains(url, <<"/", "monsters", "/">>) THEN "monster" ELSE "summon"
      [] category = "artefacts"       -> "artefacts_page"
      [] category = "gamedefinitions" -> "game_definitions_page"
      [] category = "conditions"      -> "conditions_page"
      [] category = "faqs"            -> "faqs_page"
      [] category = "errata"          -> "errata_page"
      [] OTHER                        -> ""

EmptyAbilities ==
    [innate_abilities  |-> <<>>,
     active_abilities  |-> <<>>,
     combat_manoeuvres |-> <<>>,
     accumulated_text  |-> <<>>]

\* the page record of a visit: the statically parsed fields, and for a
\* hero/monster/summon detail page the ability lists and the text of the
\* overlays behind the static text
PageData(url, category, abilities_data) ==
    [url               |-> url,
     title             |-> PageTitle(url),
     category          |-> PageCategory(url, category),
     text              |-> <<"static">> \o abilities_data.accumulated_text,
     innate_abilities  |-> abilities_data.innate_abilities,
     active_abilities  |-> abilities_data.active_abilities,
     combat_manoeuvres |-> abilities_data.combat_manoeuvres]

\* names of the sub-items the structural scan finds on a page, one per
\* matching element in document order (on the definitions page a container
\* nested in another, both with the one heading "Fate"; on a FAQ page two
\* questions with the same text)
LeafItems(url) ==
    IF url = CategoryUrl("gamedefinitions") THEN <<"Fate", "Fate">>
    ELSE IF url = CategoryUrl("conditions") THEN <<"Stunned">>
    ELSE IF StartsWith(url, CategoryUrl("faqs")) THEN <<"Can I reroll?", "Can I reroll?">>
    ELSE IF url = CategoryUrl("errata") THEN <<"Orb">>
    ELSE <<>>

LeafDoc(url, item, tag, category) ==
    [id |-> Sha256(<<url, "#", tag>>), url |-> <<url, "#", IF category = "faq" THEN tag ELSE Lower(tag)>>,
     title |-> item, category |-> category, source_page |-> url]

\* the leaf documents a category parser appends for a page
LeafDocs(url, leaf_category) ==
    [k \in DOMAIN LeafItems(url) |->
        LeafDoc(url, LeafItems(url)[k],
                IF leaf_category = "faq" THEN <<"faq-", k - 1>> ELSE LeafItems(url)[k],
                leaf_category)]

\* cards of the artefacts page
ArtifactCards == <<"Orb">>

ArtifactDoc(url, artifact_name) ==
    [id |-> Sha256(<<url, "#", artifact_name>>), url |-> <<url, "#", Lower(artifact_name)>>,
     title |-> artifact_name, category |-> "artefact", source_page |-> url]

(***************************************************************************)
(* State.                                                                  *)
(***************************************************************************)
VARIABLES
    phase,                 \* "idle", "running" (inside crawler.run), "done"
    queue,                 \* requests waiting in the crawler's queue
    seen,                  \* requests ever added in this run (the queue deduplicates)
    visits,                \* requests dispatched in this run
    faults,                \* irregular answers of the environment so far
    h,                     \* per URL: the handler coroutine's position and locals
    page_count,            \* self._page_count
    pages_data,            \* self._pages_data
    ability_documents,     \* self._ability_documents
    artifact_documents,    \* self._artifact_documents
    definition_documents,  \* self._definition_documents
    condition_documents,   \* self._condition_documents
    faq_documents,         \* self._faq_documents
    errata_documents,      \* self._errata_documents
    reveals,               \* history: the overlays captured, in order
    completed,             \* history: URLs whose handler returned
    failed,                \* history: URLs whose handler raised
    call,                  \* the last call of a function on its own: name, arguments, result
    generic                \* the CrawleeClient: its configuration, fields and handler

leaves == <<definition_documents, condition_documents, faq_documents, errata_documents>>
records == <<page_count, pages_data, ability_documents, artifact_documents, leaves>>
crawler == <<queue, seen, visits>>
\* the variables of HallOfEternalChampionsClient and of its crawl
client == <<phase, crawler, faults, h, records, reveals, completed, failed>>
\* the last call of a function under observation, and the generic crawler
others == <<call, generic>>
vars == <<client, others>>

\* no function has been called on its own
NoCall == [fn |-> "none", args |-> <<>>, result |-> <<>>]

(***************************************************************************)
(* The generic crawler, CrawleeClient, on a site of two pages.  Its        *)
(* configuration is the default one but for seed_urls and max_pages: no    *)
(* allowed_domains, no exclude_patterns, max_crawl_depth 3.                *)
(***************************************************************************)
\* max_pages of the configuration
MaxPages == 2
\* button[type="button"] controls on a page
MaxButtons == 2
\* crawlers one client creates (crawl_pages and ping create one each)
MaxCrawlers == 1
\* times the crawler hands a failed request to the handler again, per crawler
\* (max_request_retries of crawlee)
MaxRetries == 1

GenericSeed == <<"https://site.example">>

GenericPage == GenericSeed \o <<"/", "a">>

GenericURLs == {GenericSeed, GenericPage}

\* the anchors enqueue_links follows on a page
GenericLinks(url) == IF url = GenericSeed THEN {GenericPage} ELSE {GenericSeed}

\* close_selectors, in the order of the list
CloseSelectors ==
    << "button:has-text(Close)", "button:has-text(x)", "[aria-label=Close]",
       "[class*=close]", ".modal-close" >>

\* the methods a caller starts with
Methods == {"crawl_pages", "ping", "validate_config"}

\* a request handler that is not running
GenericIdle ==
    [pc               |-> "idle",
     i                |-> 0,       \* position in the reversed list all_buttons
     k                |-> 0,       \* position in close_selectors
     overlay          |-> FALSE,   \* an overlay is open on the page
     accumulated_text |-> 0]       \* len(accumulated_text)

\* CrawleeClient.__init__ on a configuration with these seed_urls and this
\* max_pages
CrawleeClient(seed_urls, max_pages) ==
    [seed_urls   |-> seed_urls,
     max_pages   |-> max_pages,
     page_count  |-> 0,
     pages_data  |-> <<>>,
     crawlers    |-> 0,            \* PlaywrightCrawler objects created
     running     |-> "",           \* the method inside crawler.run: "", "crawl_pages", "ping"
     queue       |-> {},
     seen        |-> {},
     visits      |-> 0,            \* requests handed to the handler
     finished    |-> 0,            \* requests the crawler counts as handled
     retries     |-> 0,            \* requests handed out again after a failure
     h           |-> [u \in GenericURLs |-> GenericIdle],
     last        |-> [fn \in Methods |-> "none"]]   \* how the last call of each method ended

Idle ==
    [pc                 |-> "idle",
     links              |-> {},
     other_buttons      |-> <<>>,
     description_button |-> 0,
     i                  |-> 0,
     button_text        |-> "",
     abilities_data     |-> EmptyAbilities,
     attempted          |-> <<>>,
     clicked            |-> <<>>,
     undismissed        |-> FALSE,   \* a click since the last Escape
     invisible          |-> {},      \* controls passed over at enumeration
     described          |-> 0]       \* clicks on the description control

\* HallOfEternalChampionsClient.__init__
Init ==
    /\ phase = "idle"
    /\ queue = {}
    /\ seen = {}
    /\ visits = 0
    /\ faults = 0
    /\ h = [u \in URLs |-> Idle]
    /\ page_count = 0
    /\ pages_data = <<>>
    /\ ability_documents = <<>>
    /\ artifact_documents = <<>>
    /\ definition_documents = <<>>
    /\ condition_documents = <<>>
    /\ faq_documents = <<>>
    /\ errata_documents = <<>>
    /\ reveals = <<>>
    /\ completed = {}
    /\ failed = {}
    /\ call = NoCall
    /\ generic = CrawleeClient(<<>>, MaxPages)

InFlight == { u \in URLs : h[u].pc # "idle" }

\* variant: a reset that leaves the page records and the store of the last run
ResetCounterOnly ==
    /\ page_count' = 0
    /\ UNCHANGED <<pages_data, ability_documents>>
    /\ artifact_documents' = <<>>
    /\ definition_documents' = <<>>
    /\ condition_documents' = <<>>
    /\ faq_documents' = <<>>
    /\ errata_documents' = <<>>

\* the first statements of crawl_pages
Reset ==
    /\ page_count' = 0
    /\ pages_data' = <<>>
    /\ ability_documents' = <<>>
    /\ artifact_documents' = <<>>
    /\ definition_documents' = <<>>
    /\ condition_documents' = <<>>
    /\ faq_documents' = <<>>
    /\ errata_documents' = <<>>

\* crawl_pages up to `await crawler.run(seed_urls)`: the reset and the seeding
\* of a new crawler.  The histories are those of the run; the environment's
\* irregular answers are counted over all runs.
CrawlStart ==
    /\ phase \in {"idle", "done"}
    /\ phase' = "running"
    /\ Reset
    /\ queue' = CategoryValues
    /\ seen' = CategoryValues
    /\ visits' = 0
    /\ reveals' = <<>>
    /\ completed' = {}
    /\ failed' = {}
    /\ call' = NoCall
    /\ UNCHANGED <<h, faults, generic>>

\* the crawler hands a queued request to request_handler, which runs up to
\* its first await (page.wait_for_load_state)
Dispatch(u) ==
    /\ phase = "running"
    /\ u \in queue
    /\ visits < MaxVisits
    /\ Cardinality(InFlight) < MaxConcurrency
    /\ queue' = queue \ {u}
    /\ visits' = visits + 1
    /\ h' = [h EXCEPT ![u] = [Idle EXCEPT !.pc = "load"]]
    /\ UNCHANGED <<phase, seen, faults, records, reveals, completed, failed>>
    /\ UNCHANGED others

\* an irregular answer of the environment is taken
Fault == faults < MaxFaults /\ faults' = faults + 1

\* variant: the handler catches the exception and records the visit as skipped
RecordsSkipped(u) ==
    /\ h' = [h EXCEPT ![u] = Idle]
    /\ pages_data' = Append(pages_data,
          [PageData(u, get_category_from_url(u), EmptyAbilities)
              EXCEPT !.category = "skipped"])
    /\ UNCHANGED <<page_count, ability_documents, artifact_documents, leaves>>

\* an exception leaves request_handler (it has no try around its own
\* awaits): the coroutine ends, nothing is recorded
Propagates(u) ==
    /\ h' = [h EXCEPT ![u] = Idle]
    /\ UNCHANGED records

\* the crawler on a handler that raised: it retries the request or gives it
\* up, and goes on with the queue
HandlerRaises(u) ==
    /\ Fault
    /\ Propagates(u)
    /\ \/ queue' = queue \cup {u} /\ UNCHANGED failed
       \/ failed' = failed \cup {u} /\ UNCHANGED queue
    /\ UNCHANGED <<phase, seen, visits, reveals, completed>>

\* the handler returns: the coroutine's locals are gone
Completes(u) ==
    /\ h' = [h EXCEPT ![u] = Idle]
    /\ completed' = completed \cup {u}

\* the category parsers' appends to the leaf lists (_parse_game_definition_page,
\* _parse_conditions_page, _parse_faq_page, _parse_errata_page)
ParseLeaves(u, category) ==
    /\ definition_documents' =
         IF category = "gamedefinitions"
           THEN definition_documents \o LeafDocs(u, "game_definition")
           ELSE definition_documents
    /\ condition_documents' =
         IF category = "conditions"
           THEN condition_documents \o LeafDocs(u, "condition")
           ELSE condition_documents
    /\ faq_documents' =
         IF category = "faqs" THEN faq_documents \o LeafDocs(u, "faq")
           ELSE faq_documents
    /\ errata_documents' =
         IF category = "errata" THEN errata_documents \o LeafDocs(u, "erratum")
           ELSE errata_documents

\* variant: the append without the increment
RecordPageNoCount(page_data) ==
    /\ pages_data' = Append(pages_data, page_data)
    /\ UNCHANGED page_count

\* self._pages_data.append(page_data); self._page_count += 1
RecordPage(page_data) ==
    /\ pages_data' = Append(pages_data, page_data)
    /\ page_count' = page_count + 1

\* variant: every listing page is parsed and recorded
ParsesEveryListing(category) == TRUE

\* line 1135: the listing pages that are parsed and recorded themselves
ParsesListing(category) ==
    category \in {"gamedefinitions", "conditions", "faqs", "errata"}

\* variant: the controls of every detail page are clicked
RevealsEveryDetail(category) == TRUE

\* line 1163: the detail pages on which _extract_hero_abilities is awaited
Reveals(category) == category \in {"heroes", "monsters", "summons"}

\* variant: the links of every listing page are followed
FollowsLinksAlways(category) == TRUE

\* line 1110, the else branch: the listing pages whose links are enqueued
FollowsLinks(category) == category # "artefacts"

\* variant: the counter is incremented for every listing page, the record
\* appended for the leaf categories only
ListingCounted(u, category) ==
    /\ IF ParsesListing(category)
         THEN /\ ParseLeaves(u, category)
              /\ pages_data' = Append(pages_data, PageData(u, category, EmptyAbilities))
         ELSE UNCHANGED <<leaves, pages_data>>
    /\ page_count' = page_count + 1
    /\ UNCHANGED <<ability_documents, artifact_documents>>
    /\ Completes(u)

\* the end of the branch for a listing page other than artefacts, after the
\* last add_requests: the listing page itself is parsed and recorded for the
\* leaf categories only
ListingDone(u, category) ==
    /\ IF ParsesListing(category)
         THEN /\ ParseLeaves(u, category)
              /\ RecordPage(PageData(u, category, EmptyAbilities))
         ELSE UNCHANGED <<leaves, pages_data, page_count>>
    /\ UNCHANGED <<ability_documents, artifact_documents>>
    /\ Completes(u)

\* request_handler after wait_for_load_state, wait_for_timeout(1000) and
\* page.content() returned, up to the next await
PageLoaded(u) ==
    /\ h[u].pc = "load"
    /\ LET category == get_category_from_url(u)
       IN  \/ /\ is_list_page(u)
              /\ ~FollowsLinks(category)
              /\ h' = [h EXCEPT ![u].pc = "artifacts"]
              /\ UNCHANGED <<crawler, records, completed>>
           \/ /\ is_list_page(u)
              /\ FollowsLinks(category)
              /\ LET links == extract_list_page_links(Anchors(u), u)
                 IN  IF links = {}
                       THEN ListingDone(u, category)
                       ELSE /\ h' = [h EXCEPT ![u].pc = "enqueue", ![u].links = links]
                            /\ UNCHANGED <<records, completed>>
              /\ UNCHANGED crawler
           \/ /\ ~is_list_page(u)
              /\ Reveals(category)
              /\ h' = [h EXCEPT ![u].pc = "map"]
              /\ UNCHANGED <<crawler, records, completed>>
           \/ /\ ~is_list_page(u)
              /\ ~Reveals(category)
              /\ ParseLeaves(u, category)
              /\ RecordPage(PageData(u, category, EmptyAbilities))
              /\ Completes(u)
              /\ UNCHANGED <<crawler, ability_documents, artifact_documents>>
    /\ UNCHANGED <<phase, faults, reveals, failed>>
    /\ UNCHANGED others

\* one of wait_for_load_state, wait_for_timeout, page.content raises
PageLoadFails(u) ==
    /\ h[u].pc = "load"
    /\ HandlerRaises(u)
    /\ UNCHANGED others

\* `await context.add_requests([link])` returns for one of the links; after
\* the last one the listing page is done
Enqueued(u) ==
    /\ h[u].pc = "enqueue"
    /\ \E link \in h[u].links :
          /\ queue' = IF link \in seen THEN queue ELSE queue \cup {link}
          /\ seen' = seen \cup {link}
          /\ IF h[u].links = {link}
               THEN ListingDone(u, get_category_from_url(u))
               ELSE /\ h' = [h EXCEPT ![u].links = @ \ {link}]
                    /\ UNCHANGED <<records, completed>>
    /\ UNCHANGED <<phase, visits, faults, reveals, failed>>
    /\ UNCHANGED others

\* add_requests raises
EnqueueFails(u) ==
    /\ h[u].pc = "enqueue"
    /\ HandlerRaises(u)
    /\ UNCHANGED others

\* the artefacts listing page: _extract_artifacts (it catches every
\* exception; a card whose handling fails yields no document), then the
\* page itself is recorded
ArtifactsExtracted(u) ==
    /\ h[u].pc = "artifacts"
    /\ \E ok \in BOOLEAN :
          /\ IF ok THEN UNCHANGED faults
                   ELSE faults < MaxFaults /\ faults' = faults + 1
          /\ artifact_documents' = artifact_documents \o
                (IF ok THEN [k \in DOMAIN ArtifactCards |-> ArtifactDoc(u, ArtifactCards[k])]
                       ELSE <<>>)
    /\ RecordPage(PageData(u, "artefacts", EmptyAbilities))
    /\ Completes(u)
    /\ UNCHANGED <<phase, crawler, ability_documents, leaves, reveals, failed>>
    /\ UNCHANGED others

(***************************************************************************)
(* _extract_hero_abilities, called by request_handler on a hero, monster   *)
(* or summon detail page.                                                  *)
(***************************************************************************)
\* list.reverse()
Reverse(list) == [k \in DOMAIN list |-> list[Len(list) + 1 - k]]

\* where the coroutine waits once the controls are partitioned, and after
\* each iteration of the loop over other_buttons: at the next control's
\* is_visible, else at the description control's click, else it returns
LoopFrom(loc, i) ==
    IF i <= Len(loc.other_buttons)
      THEN [loc EXCEPT !.pc = "check", !.i = i, !.button_text = ""]
    ELSE IF loc.description_button # 0
      THEN [loc EXCEPT !.pc = "description", !.i = i, !.button_text = ""]
    ELSE [loc EXCEPT !.pc = "return", !.i = i, !.button_text = ""]

\* variant: a failure at one control ends the loop
AbortLoop(loc) == LoopFrom(loc, Len(loc.other_buttons) + 1)

\* `except Exception as e: ... continue` of the loop over other_buttons
OnControlFailure(loc) == LoopFrom(loc, loc.i + 1)

\* variant: no outer except, the exception ends the handler
PropagateExcept(loc) == Idle

\* the outer `except Exception`: log, then `return abilities_data`
OuterExcept(loc) == [loc EXCEPT !.pc = "return"]

\* variant: the controls in the order of enumeration
ClickOrderForward(other_buttons) == other_buttons

\* the order in which the loop takes the controls
ClickOrder(other_buttons) == Reverse(other_buttons)

\* variant: the description control is kept among the other controls
PartitionByVisibility(all_buttons, skipped) ==
    [other_buttons |-> SelectSeq([k \in DOMAIN all_buttons |-> k],
                                 LAMBDA k : k \notin skipped),
     description_button |-> 0]

\* other_buttons and description_button after the loop over all_buttons,
\* when the controls in `skipped` were not visible/enabled or raised
Partition(all_buttons, skipped) ==
    LET RECURSIVE part(_, _)
        part(k, acc) ==
            IF k > Len(all_buttons) THEN acc
            ELSE part(k + 1,
                      IF k \in skipped THEN acc
                      ELSE IF HasDescription(Lower(all_buttons[k].label))
                        THEN [acc EXCEPT !.description_button = k]
                        ELSE [acc EXCEPT !.other_buttons = Append(@, k)])
    IN  part(1, [other_buttons |-> <<>>, description_button |-> 0])

\* page.content() returns and button_to_type is built; locator.all()
\* returns; each control is asked is_visible, is_enabled, inner_text;
\* other_buttons is reversed; the coroutine then waits at the first control
\* of the click loop
Enumerated(u) ==
    /\ h[u].pc = "map"
    /\ LET all_buttons == AllButtons(LayoutOf(u))
           start(p, skipped) ==
               LoopFrom([h[u] EXCEPT
                           !.other_buttons = ClickOrder(p.other_buttons),
                           !.description_button = p.description_button,
                           !.invisible = skipped], 1)
       IN  \/ /\ UNCHANGED faults
              /\ h' = [h EXCEPT ![u] = start(Partition(all_buttons, {}), {})]
           \/ /\ Fault
              /\ \E b \in DOMAIN all_buttons :
                    h' = [h EXCEPT ![u] = start(Partition(all_buttons, {b}), {b})]
    /\ UNCHANGED <<phase, crawler, records, reveals, completed, failed>>
    /\ UNCHANGED others

\* page.content() or page.locator(...).all() raises: the outer except logs
\* and the function returns what it has
RevealAborted(u) ==
    /\ h[u].pc = "map"
    /\ Fault
    /\ h' = [h EXCEPT ![u] = OuterExcept(@)]
    /\ UNCHANGED <<phase, crawler, records, reveals, completed, failed>>
    /\ UNCHANGED others

\* top of an iteration of the loop over other_buttons: is_visible,
\* is_enabled, inner_text
Check(u) ==
    /\ h[u].pc = "check"
    /\ LET b == h[u].other_buttons[h[u].i]
           button_text == AllButtons(LayoutOf(u))[b].label
           loc == [h[u] EXCEPT !.attempted = Append(@, b)]
       IN  \/ /\ UNCHANGED faults
              /\ h' = [h EXCEPT ![u] =
                         IF button_text = "" THEN LoopFrom(loc, loc.i + 1)
                         ELSE [loc EXCEPT !.pc = "click", !.button_text = button_text]]
           \/ \* not visible/enabled: continue; or a call raises: except, continue
              /\ Fault
              /\ h' = [h EXCEPT ![u] = OnControlFailure(loc)]
    /\ UNCHANGED <<phase, crawler, records, reveals, completed, failed>>
    /\ UNCHANGED others

\* abilities_data after a revealed overlay
Attribute(abilities_data, ability_type, ability_title, ability_text) ==
    [abilities_data EXCEPT
       !.innate_abilities =
          IF ability_type = "innate" THEN Append(@, ability_title) ELSE @,
       !.active_abilities =
          IF ability_type = "active" THEN Append(@, ability_title) ELSE @,
       !.combat_manoeuvres =
          IF ability_type = "combat_manoeuvre" THEN Append(@, ability_title) ELSE @,
       !.accumulated_text = Append(@, <<ability_title, ability_text>>)]

\* button.click(), wait_for_timeout(500) and page.content() return, and the
\* code up to `await page.keyboard.press("Escape")` runs: the overlay, if
\* one is found, is attributed and merged into the store
Click(u) ==
    /\ h[u].pc = "click"
    /\ LET b == h[u].other_buttons[h[u].i]
           loc == [h[u] EXCEPT !.clicked = Append(@, b), !.undismissed = TRUE]
           ability_title == h[u].button_text
           ability_type == AbilityType(ButtonToType(LayoutOf(u)), ability_title)
           ability_text == OverlayOf(u)
       IN  \/ /\ h' = [h EXCEPT ![u] =
                         [loc EXCEPT !.pc = "dismiss",
                                     !.abilities_data =
                                        Attribute(@, ability_type, ability_title, ability_text)]]
              /\ ability_documents' =
                   RecordAbility(ability_documents, ability_title, ability_text,
                                 ability_type, Cost(ability_text, ability_title),
                                 PageTitle(u), u)
              /\ reveals' = Append(reveals,
                   [title |-> ability_title, text |-> ability_text,
                    type |-> ability_type, name |-> PageTitle(u), url |-> u])
              /\ UNCHANGED faults
           \/ \* no overlay in the markup
              /\ Fault
              /\ h' = [h EXCEPT ![u] = [loc EXCEPT !.pc = "dismiss"]]
              /\ UNCHANGED <<ability_documents, reveals>>
           \/ \* button.click() raises, the control is not clicked: except, continue
              /\ Fault
              /\ h' = [h EXCEPT ![u] = OnControlFailure(h[u])]
              /\ UNCHANGED <<ability_documents, reveals>>
           \/ \* wait_for_timeout or page.content raises after the click:
              \* except, continue, and line 1046 is not reached
              /\ Fault
              /\ h' = [h EXCEPT ![u] = OnControlFailure(loc)]
              /\ UNCHANGED <<ability_documents, reveals>>
    /\ UNCHANGED <<phase, crawler, page_count, pages_data, artifact_documents,
                   leaves, completed, failed>>
    /\ UNCHANGED others

\* keyboard.press("Escape") and wait_for_timeout(200) return; or the key
\* press raises, the key is not sent (except, continue): either way the next
\* iteration
Dismiss(u) ==
    /\ h[u].pc = "dismiss"
    /\ \/ /\ UNCHANGED faults
          /\ h' = [h EXCEPT ![u] = LoopFrom([@ EXCEPT !.undismissed = FALSE], @.i + 1)]
       \/ /\ Fault
          /\ h' = [h EXCEPT ![u] = OnControlFailure(@)]
    /\ UNCHANGED <<phase, crawler, records, reveals, completed, failed>>
    /\ UNCHANGED others

\* variant: the description replaces what was accumulated
DescriptionAlone(accumulated_text) == << <<"Description", "main">> >>

\* accumulated_text after the text of <main> is appended
DescriptionCaptured(accumulated_text) ==
    Append(accumulated_text, <<"Description", "main">>)

\* the description control: click, wait_for_timeout(1000), page.content();
\* the text of <main> is the last fragment; a raise is logged by the inner
\* except and nothing is appended.  No key press and no close follows: the
\* function returns.
Description(u) ==
    /\ h[u].pc = "description"
    /\ \/ /\ UNCHANGED faults
          /\ h' = [h EXCEPT ![u].pc = "return",
                            ![u].described = @ + 1,
                            ![u].abilities_data.accumulated_text =
                               DescriptionCaptured(@)]
       \/ /\ Fault
          /\ h' = [h EXCEPT ![u].pc = "return", ![u].described = @ + 1]
    /\ UNCHANGED <<phase, crawler, records, reveals, completed, failed>>
    /\ UNCHANGED others

\* `return abilities_data`, and request_handler to its end: the ability
\* lists and the accumulated text go into the page record, which is recorded
Return(u) ==
    /\ h[u].pc = "return"
    /\ RecordPage(PageData(u, get_category_from_url(u), h[u].abilities_data))
    /\ Completes(u)
    /\ UNCHANGED <<phase, crawler, faults, ability_documents, artifact_documents,
                   leaves, reveals, failed>>
    /\ UNCHANGED others

\* the counts crawl_pages logs when the crawler has returned
Summary ==
    [pages       |-> Len(pages_data),
     abilities   |-> Len(ability_documents),
     artifacts   |-> Len(artifact_documents),
     definitions |-> Len(definition_documents),
     conditions  |-> Len(condition_documents),
     faqs        |-> Len(faq_documents),
     errata      |-> Len(errata_documents),
     total       |-> Len(pages_data) + Len(ability_documents)
                     + Len(artifact_documents) + Len(definition_documents)
                     + Len(condition_documents) + Len(faq_documents)
                     + Len(errata_documents)]

\* category_counts: pages per page.get("category", "unknown")
category_counts ==
    LET cat(k) == IF pages_data[k].category = "" THEN "unknown"
                  ELSE pages_data[k].category
    IN  [c \in { cat(k) : k \in DOMAIN pages_data } |->
            Cardinality({ k \in DOMAIN pages_data : cat(k) = c })]

\* crawler.run returns (the queue is empty or the budget is used up, and no
\* handler is in flight); crawl_pages logs its counts and returns
CrawlFinish ==
    /\ phase = "running"
    /\ InFlight = {}
    /\ queue = {} \/ visits >= MaxVisits
    /\ phase' = "done"
    /\ UNCHANGED <<crawler, faults, h, records, reveals, completed, failed>>
    /\ UNCHANGED others

(***************************************************************************)
(* The Document Assembler: HallOfEternalChampionsDataSource.get_docs, from *)
(* the return of crawl_pages on.                                           *)
(***************************************************************************)
\* the values datetime.utcnow().isoformat() can take during one assembly
Clock == {"t1", "t2"}

\* variant: the id of the site a page belongs to
doc_id_of_origin(url) == Sha256(SubSeq(url, 1, 1))

\* _generate_doc_id
generate_doc_id(url) == Sha256(url)

\* the dict crawl_pages returns
crawl_results ==
    [pages       |-> pages_data,
     abilities   |-> DictValues(ability_documents),
     artifacts   |-> artifact_documents,
     definitions |-> definition_documents,
     conditions  |-> condition_documents,
     faqs        |-> faq_documents,
     errata      |-> errata_documents]

\* the document of a page
PageDocument(page, now) ==
    [kind |-> "page", id |-> generate_doc_id(page.url), timestamp |-> now,
     url |-> page.url, title |-> page.title, text |-> page.text,
     category |-> IF page.category = "" THEN "unknown" ELSE page.category,
     innate_abilities  |-> IF page.category \in {"hero", "monster", "summon"}
                             THEN page.innate_abilities ELSE <<>>,
     active_abilities  |-> IF page.category \in {"hero", "monster", "summon"}
                             THEN page.active_abilities ELSE <<>>,
     combat_manoeuvres |-> IF page.category \in {"hero", "monster", "summon"}
                             THEN page.combat_manoeuvres ELSE <<>>,
     entities |-> <<>>, source_page |-> <<>>]

\* the document of an ability
AbilityDocument(ability, now) ==
    [kind |-> "ability", id |-> ability.id, timestamp |-> now,
     url |-> ability.url, title |-> ability.title, text |-> ability.text,
     category |-> ability.category,
     innate_abilities |-> <<>>, active_abilities |-> <<>>, combat_manoeuvres |-> <<>>,
     entities |-> ability.entities, source_page |-> <<>>]

\* the document of an artefact, a definition, a condition, a FAQ or an erratum
LeafDocument(kind, leaf, now) ==
    [kind |-> kind, id |-> leaf.id, timestamp |-> now,
     url |-> leaf.url, title |-> leaf.title, text |-> <<>>,
     category |-> leaf.category,
     innate_abilities |-> <<>>, active_abilities |-> <<>>, combat_manoeuvres |-> <<>>,
     entities |-> <<>>, source_page |-> leaf.source_page]

\* variant: an assembler that yields no ability document
get_docs_pages_only(results, now) ==
    [k \in DOMAIN results.pages |-> PageDocument(results.pages[k], now)]

\* the documents get_docs yields, in order
get_docs(results, now) ==
    [k \in DOMAIN results.pages |-> PageDocument(results.pages[k], now)]
    \o [k \in DOMAIN results.abilities |-> AbilityDocument(results.abilities[k], now)]
    \o [k \in DOMAIN results.artifacts |-> LeafDocument("artifact", results.artifacts[k], now)]
    \o [k \in DOMAIN results.definitions |->
           LeafDocument("definition", results.definitions[k], now)]
    \o [k \in DOMAIN results.conditions |->
           LeafDocument("condition", results.conditions[k], now)]
    \o [k \in DOMAIN results.faqs |-> LeafDocument("faq", results.faqs[k], now)]
    \o [k \in DOMAIN results.errata |-> LeafDocument("erratum", results.errata[k], now)]

\* get_docs, after its crawl_pages has returned, yields its documents
GetDocs ==
    /\ phase = "done"
    /\ call = NoCall
    /\ \E now \in Clock :
          call' = [fn |-> "get_docs", args |-> <<now>>,
                   result |-> get_docs(crawl_results, now)]
    /\ UNCHANGED <<client, generic>>

Next ==
    \/ CrawlStart
    \/ CrawlFinish
    \/ GetDocs
    \/ \E u \in URLs :
          \/ Dispatch(u)
          \/ PageLoaded(u)
          \/ PageLoadFails(u)
          \/ Enqueued(u)
          \/ EnqueueFails(u)
          \/ ArtifactsExtracted(u)
          \/ Enumerated(u)
          \/ RevealAborted(u)
          \/ Check(u)
          \/ Click(u)
          \/ Dismiss(u)
          \/ Description(u)
          \/ Return(u)

Spec == Init /\ [][Next]_vars

(***************************************************************************)
(* Properties.  The history variables reveals, completed and failed, and   *)
(* the logs attempted and clicked of a handler, are what they are stated   *)
(* over.                                                                   *)
(***************************************************************************)
Docs == DictValues(ability_documents)

\* the captures of a title, in the order they were made
RevealsOf(title) == SelectSeq(reveals, LAMBDA r : r.title = title)

IsPrefix(s, t) == Len(s) <= Len(t) /\ SubSeq(t, 1, Len(s)) = s

\* s without the repetitions of an element after its first occurrence
RECURSIVE FirstSeen(_)
FirstSeen(s) ==
    IF s = <<>> THEN <<>>
    ELSE LET init == FirstSeen(SubSeq(s, 1, Len(s) - 1))
             last == s[Len(s)]
         IN  IF last \in Range(init) THEN init ELSE Append(init, last)

Aria == BASE_URL \o <<"/", "heroes", "/", "aria">>
Brok == BASE_URL \o <<"/", "heroes", "/", "brok">>
SummonAria == BASE_URL \o <<"/", "summons", "/", "aria">>

\* the positions of a handler inside _extract_hero_abilities
RevealPcs == {"map", "check", "click", "dismiss", "description", "return"}

\* C1: the store holds at most one record per ability title, whatever the
\* number of pages that revealed an ability of that title.
C1_OneRecordPerTitle ==
    \A a, b \in DOMAIN Docs : Docs[a].title = Docs[b].title => a = b

\* two different pages have revealed an ability of the same title
C1_TwoPagesSameTitle ==
    \E i, j \in DOMAIN reveals :
        /\ reveals[i].title = reveals[j].title
        /\ reveals[i].url # reveals[j].url
        /\ \E a \in DOMAIN Docs : Docs[a].title = reveals[i].title

\* C2: the entity list of a record is the sequence of the distinct (entity
\* name, page URL) pairs that revealed the title, each once, in the order
\* they were first seen; a pair revealed again changes nothing.
C2_EntitiesFirstSeen ==
    \A a \in DOMAIN Docs :
        LET R == RevealsOf(Docs[a].title)
            pairs == [k \in DOMAIN R |-> <<R[k].name, R[k].url>>]
            listed == [k \in DOMAIN Docs[a].entities |->
                         <<Docs[a].entities[k].name, Docs[a].entities[k].url>>]
        IN  listed = FirstSeen(pairs)

\* a title revealed three times, twice by one page and once by another, with
\* two references in its record
C2_RepeatedAndShared ==
    \E a \in DOMAIN Docs :
        LET R == RevealsOf(Docs[a].title)
        IN  /\ Len(R) = 3
            /\ \E i, j \in DOMAIN R : i < j /\ R[i].url = R[j].url
            /\ \E i, j \in DOMAIN R : R[i].url # R[j].url
            /\ Len(Docs[a].entities) = 2

\* C3: within a run, no step changes the text, kind, cost, id or url of a
\* record that exists, and a record's entity list is only extended at its end.
C3_FirstCaptureKept ==
    [][phase = "running" =>
         \A a \in DOMAIN Docs :
            \E b \in DOMAIN Docs' :
               /\ Docs'[b].title = Docs[a].title
               /\ Docs'[b].text = Docs[a].text
               /\ Docs'[b].category = Docs[a].category
               /\ Docs'[b].cost = Docs[a].cost
               /\ Docs'[b].id = Docs[a].id
               /\ Docs'[b].url = Docs[a].url
               /\ IsPrefix(Docs[a].entities, Docs'[b].entities)]_vars

\* a later capture of a title differed in text and in kind from the record
\* the store keeps for the title
C3_LaterCaptureDiffers ==
    \E k \in DOMAIN reveals : \E a \in DOMAIN Docs :
        /\ Docs[a].title = reveals[k].title
        /\ Docs[a].text # reveals[k].text
        /\ Docs[a].category # reveals[k].type
        /\ Len(Docs[a].entities) = 2

\* C4: with handlers running concurrently, every capture leaves exactly one
\* record of its title, which lists the capturing page and keeps the text
\* and kind of the first capture of the title: no reference is lost, no
\* record overwritten, no second record created.
C4_NoLostUpdate ==
    \A k \in DOMAIN reveals :
        LET r == reveals[k]
            first == RevealsOf(r.title)[1]
            S == { a \in DOMAIN Docs : Docs[a].title = r.title }
        IN  /\ Cardinality(S) = 1
            /\ \A a \in S :
                  /\ entity_ref(r.name, r.url) \in Range(Docs[a].entities)
                  /\ Docs[a].text = first.text
                  /\ Docs[a].category = first.type

\* two handlers are in flight at once, each between the capture of an
\* overlay of the same title and its dismissal
C4_ConcurrentSameTitle ==
    \E u, v \in URLs :
        /\ u # v
        /\ h[u].pc = "dismiss" /\ h[v].pc = "dismiss"
        /\ h[u].button_text = h[v].button_text
        /\ \E i, j \in DOMAIN reveals :
              /\ reveals[i].url = u /\ reveals[i].title = h[u].button_text
              /\ reveals[j].url = v /\ reveals[j].title = h[v].button_text

\* C5: the controls of a page are attempted, and clicked, in the reverse of
\* their order of enumeration, none left out on the way.
C5_ReverseOrder ==
    \A u \in URLs :
        LET att == h[u].attempted
            clk == h[u].clicked
        IN  /\ \A i, j \in DOMAIN att : i < j => att[i] > att[j]
            /\ \A i, j \in DOMAIN clk : i < j => clk[i] > clk[j]
            /\ \A i \in DOMAIN att : \A b \in Range(h[u].other_buttons) :
                  b > att[i] => \E j \in 1..(i - 1) : att[j] = b

\* a page with four controls, all attempted and three of them clicked
C5_FourAttempted ==
    \E u \in URLs : Len(h[u].attempted) = 4 /\ Len(h[u].clicked) = 3

\* the titles captured on page u, restricted to those whose kind is `kind`
\* by the page's control-to-kind map, 'innate' for a label not in the map
CapturedAs(u, kind) ==
    LET m == ButtonToType(LayoutOf(u))
        kindOf(t) == IF t \in DOMAIN m THEN m[t] ELSE "innate"
        R == SelectSeq(reveals, LAMBDA r : r.url = u /\ kindOf(r.title) = kind)
    IN  [k \in DOMAIN R |-> R[k].title]

CapturedOn(u) == SelectSeq(reveals, LAMBDA r : r.url = u)

\* the three lists hold the captures of page u, each capture in the list of
\* its kind and in no other
AttributedOnce(u, lists) ==
    /\ lists.innate_abilities = CapturedAs(u, "innate")
    /\ lists.active_abilities = CapturedAs(u, "active")
    /\ lists.combat_manoeuvres = CapturedAs(u, "combat_manoeuvre")
    /\ Len(lists.innate_abilities) + Len(lists.active_abilities)
         + Len(lists.combat_manoeuvres) = Len(CapturedOn(u))

\* C6: every control whose click revealed an overlay has its label in
\* exactly one of innate_abilities, active_abilities, combat_manoeuvres:
\* the list of the kind the control-to-kind map gives the label, the innate
\* list for a label that is not in the map; this holds of the lists of a
\* handler at work and of the lists of the page record.
C6_AttributedToOneKind ==
    /\ \A u \in URLs : h[u].pc \in RevealPcs => AttributedOnce(u, h[u].abilities_data)
    /\ \A k \in DOMAIN pages_data :
          pages_data[k].category \in {"hero", "monster", "summon"}
             => AttributedOnce(pages_data[k].url, pages_data[k])

\* on one page a label of the map went to the active list, and a label that
\* is in the map only in another spelling went to the innate list
C6_MappedAndUnmapped ==
    /\ h[SummonAria].pc = "return"
    /\ h[SummonAria].abilities_data.active_abilities = <<"Strike (1AP)", "Ward">>
    /\ h[SummonAria].abilities_data.innate_abilities = <<"WARD">>

\* C7: a failure at one control is contained: the loop attempts the
\* controls one after another whatever failed, all of them by the time it
\* is over, and the fragments captured so far are kept.
C7_FailureContained ==
    \A u \in URLs :
        LET loc == h[u]
            R == CapturedOn(u)
            fragments == [k \in DOMAIN R |-> <<R[k].title, R[k].text>>]
        IN  loc.pc \in RevealPcs =>
              /\ IsPrefix(loc.attempted, loc.other_buttons)
              /\ loc.pc \in {"description", "return"} => loc.attempted = loc.other_buttons
              /\ IsPrefix(fragments, loc.abilities_data.accumulated_text)

\* the loop is over on a page where the second of three clicked controls
\* failed: the fragment of the first is kept, the third was captured
C7_MiddleControlFailed ==
    /\ h[SummonAria].pc = "return"
    /\ Len(h[SummonAria].clicked) = 3
    /\ Len(h[SummonAria].attempted) = 4
    /\ h[SummonAria].abilities_data.accumulated_text =
          << <<"Strike (1AP)", "Passive.">>, <<"WARD", "Passive.">> >>

\* C8: no failure inside the reveal sequence leaves the Revealer or the
\* handler: a handler inside the sequence stays inside it, keeping what it
\* has collected, until it ends with its page record appended, holding the
\* collected lists and text; it never ends as a failed request.
C8_RevealNeverRaises ==
    [][\A u \in URLs :
          h[u].pc \in RevealPcs =>
             \/ /\ h'[u].pc \in RevealPcs
                /\ IsPrefix(h[u].abilities_data.accumulated_text,
                            h'[u].abilities_data.accumulated_text)
                /\ u \notin failed'
             \/ /\ h'[u].pc = "idle"
                /\ u \in completed' /\ u \notin failed'
                /\ Len(pages_data') = Len(pages_data) + 1
                /\ SubSeq(pages_data', 1, Len(pages_data)) = pages_data
                /\ LET rec == pages_data'[Len(pages_data')]
                   IN  /\ rec.url = u
                       /\ rec.text = <<"static">> \o h[u].abilities_data.accumulated_text
                       /\ rec.innate_abilities = h[u].abilities_data.innate_abilities
                       /\ rec.active_abilities = h[u].abilities_data.active_abilities
                       /\ rec.combat_manoeuvres = h[u].abilities_data.combat_manoeuvres]_vars

\* the enumeration of the controls raised on a hero page, and the page is
\* recorded with its static text alone
C8_RecordedAfterFailure ==
    \E k \in DOMAIN pages_data :
        /\ pages_data[k].url = Aria
        /\ pages_data[k].text = <<"static">>
        /\ Aria \in completed
        /\ failed = {}

\* the listing pages of the categories whose handler appends no page record
UnrecordedListing(u) ==
    is_list_page(u) /\ get_category_from_url(u) \in {"gods", "heroes", "monsters", "summons"}

\* C9 as stated: the counter is the number of completed visits, listing
\* pages of gods, heroes, monsters and summons included.
C9_CountsEveryVisit == page_count = Cardinality(completed)

\* C9: the counter is the number of completed visits that appended a page
\* record: every completed visit but those of the gods, heroes, monsters
\* and summons listing pages.
C9_CountsRecordedVisits ==
    page_count = Cardinality({ u \in completed : ~UnrecordedListing(u) })

\* the run is over, the heroes listing page and a hero page completed, and
\* the counter is below the number of completed visits
C9_ListingNotCounted ==
    /\ phase = "done"
    /\ CategoryUrl("heroes") \in completed
    /\ Aria \in completed
    /\ page_count = 1
    /\ Cardinality(completed) = 2

\* the number of visits the logged counts report as skipped
SkippedVisits ==
    IF "skipped" \in DOMAIN category_counts THEN category_counts["skipped"] ELSE 0

\* C10 as stated: when the run is over its counts report the failed visits
\* as skipped.
C10_SkippedSurfaced == phase = "done" => SkippedVisits = Cardinality(failed)

\* C10: a page-level failure ends the handler with nothing recorded: the
\* counter, the page records, the store and the leaf lists are as before,
\* no page record and no count stands for the failed visit; the run goes
\* on, the queue and the other handlers untouched.
C10_FailureLeavesNoRecord ==
    [][\A u \in URLs :
          (h[u].pc # "idle" /\ h'[u].pc = "idle" /\ u \notin completed') =>
             /\ records' = records
             /\ phase' = "running"
             /\ queue \subseteq queue'
             /\ \A v \in URLs \ {u} : h'[v] = h[v]
             /\ \A k \in DOMAIN pages_data' : pages_data'[k].url \notin failed'
             /\ SkippedVisits' = 0]_vars

\* a run is over in which a visit failed and was given up, and the visits
\* of other pages were recorded
C10_FailedAndFinished ==
    /\ phase = "done"
    /\ failed # {}
    /\ visits = MaxVisits
    /\ Len(pages_data) = 2
    /\ SkippedVisits = 0

\* every record of the client was produced by a visit or a capture of the
\* run whose histories the state holds
RecordsOfThisRun ==
    /\ \A k \in DOMAIN pages_data : pages_data[k].url \in completed
    /\ \A a \in DOMAIN Docs :
          /\ RevealsOf(Docs[a].title) # <<>>
          /\ \A e \in DOMAIN Docs[a].entities :
                \E k \in DOMAIN reveals : reveals[k].url = Docs[a].entities[e].url
    /\ \A list \in {artifact_documents, definition_documents, condition_documents,
                    faq_documents, errata_documents} :
          \A k \in DOMAIN list : list[k].source_page \in completed

\* C12: the step that begins a run leaves the page counter at 0 and the
\* page records, the ability store, the artefact list and every leaf list
\* empty, whatever an earlier run left; and at any moment every record of
\* the client comes from the run in progress.
C12_RunStartsEmpty ==
    [][/\ (phase # "running" /\ phase' = "running") =>
             /\ page_count' = 0
             /\ pages_data' = <<>>
             /\ ability_documents' = <<>>
             /\ artifact_documents' = <<>>
             /\ definition_documents' = <<>>
             /\ condition_documents' = <<>>
             /\ faq_documents' = <<>>
             /\ errata_documents' = <<>>
       /\ RecordsOfThisRun']_vars

\* a run has begun after an earlier run in which the environment answered
\* irregularly; no page of the new run is handled yet and the client holds
\* no record
C12_SecondRunBegun ==
    /\ phase = "running"
    /\ visits = 0
    /\ faults > 0
    /\ page_count = 0
    /\ pages_data = <<>>
    /\ ability_documents = <<>>
    /\ artifact_documents = <<>>

\* C20 as stated: whenever a handler is about to click a control, or the
\* description control, every click it made before has been followed by
\* the cancel key.
C20_CancelAfterEveryClick ==
    \A u \in URLs : h[u].pc \in {"click", "description"} => ~h[u].undismissed

(***************************************************************************)
(* The page parsers, as functions of the markup.  A text is a sequence of  *)
(* tokens; a word is a run of tokens without whitespace.                   *)
(***************************************************************************)
MaxText == 3

TextTokens == {"Health", "Bounty", "Tier", ":", " ", "5", "gold"}

Texts == UNION { [1..n -> TextTokens] : n \in 0..MaxText }

IsSpace(t) == t = " "

IsDigit(t) == t = "5"

\* str.find: the index of the first occurrence of sub in s, 0 when absent
Find(s, sub) ==
    LET at == { k \in 1..(Len(s) - Len(sub) + 1) :
                  \A j \in 1..Len(sub) : s[k + j - 1] = sub[j] }
    IN  IF at = {} THEN 0 ELSE CHOOSE k \in at : \A j \in at : k <= j

\* s.split(sep): the pieces of s between the occurrences of sep
RECURSIVE Split(_, _)
Split(s, sep) ==
    LET k == Find(s, sep)
    IN  IF k = 0 THEN <<s>>
        ELSE <<SubSeq(s, 1, k - 1)>> \o Split(SubSeq(s, k + Len(sep), Len(s)), sep)

\* s.lstrip()
RECURSIVE LStrip(_)
LStrip(s) == IF s # <<>> /\ IsSpace(Head(s)) THEN LStrip(Tail(s)) ELSE s

\* the longest prefix of s whose tokens satisfy no whitespace test
RECURSIVE Word(_)
Word(s) == IF s = <<>> \/ IsSpace(Head(s)) THEN <<>> ELSE <<Head(s)>> \o Word(Tail(s))

\* s.strip().split(): the whitespace-separated words of s
RECURSIVE Words(_)
Words(s) ==
    LET t == LStrip(s)
    IN  IF t = <<>> THEN <<>>
        ELSE <<Word(t)>> \o Words(SubSeq(t, Len(Word(t)) + 1, Len(t)))

\* the longest prefix of s made of digits
RECURSIVE Digits(_)
Digits(s) == IF s = <<>> \/ ~IsDigit(Head(s)) THEN <<>> ELSE <<Head(s)>> \o Digits(Tail(s))

\* int(): the number a run of digits denotes
RECURSIVE Int_(_)
Int_(ds) == IF ds = <<>> THEN 0 ELSE 10 * Int_(SubSeq(ds, 1, Len(ds) - 1)) + 5

\* int(word) succeeds on a non-empty run of digits and raises ValueError otherwise
IsInt(word) == word # <<>> /\ Digits(word) = word

\* re.search(label + r":\s*(\d+)", text): the digits of the leftmost match,
\* <<>> when there is none
Search(label, text) ==
    LET digits(k) == Digits(LStrip(SubSeq(text, k + 2, Len(text))))
        at == { k \in 1..(Len(text) - 1) :
                  text[k] = label /\ text[k + 1] = ":" /\ digits(k) # <<>> }
    IN  IF at = {} THEN <<>> ELSE digits(CHOOSE k \in at : \A j \in at : k <= j)

IntValue(n) == [type |-> "int", int |-> n, str |-> <<>>]

StrValue(s) == [type |-> "str", int |-> 0, str |-> s]

\* lines 474-476: the defaults of the three fields
CreatureDefaults == [raised |-> "", health |-> 0, bounty |-> StrValue(<<>>), tier |-> 0]

\* lines 495-500: text.split("Bounty:")[1].strip().split()[0], outside the
\* try; then int() inside it
Bounty(text, bounty_value) ==
    LET parts == Split(text, <<"Bounty", ":">>)
    IN  IF Len(parts) < 2 THEN [raised |-> "IndexError", bounty |-> bounty_value]
        ELSE LET words == Words(parts[2])
             IN  IF words = <<>> THEN [raised |-> "IndexError", bounty |-> bounty_value]
                 ELSE IF IsInt(words[1])
                        THEN [raised |-> "", bounty |-> IntValue(Int_(words[1]))]
                        ELSE [raised |-> "", bounty |-> StrValue(words[1])]

\* lines 487-506: one div under the Health / Bounty heading
CreatureDiv(text, doc) ==
    LET colon == Contains(text, <<":">>)
        health == IF Contains(text, <<"Health">>) /\ colon /\ Search("Health", text) # <<>>
                    THEN Int_(Search("Health", text)) ELSE doc.health
        bounty == IF Contains(text, <<"Bounty">>) /\ colon
                    THEN Bounty(text, doc.bounty)
                    ELSE [raised |-> "", bounty |-> doc.bounty]
        tier   == IF Contains(text, <<"Tier">>) /\ colon /\ Search("Tier", text) # <<>>
                    THEN Int_(Search("Tier", text)) ELSE doc.tier
    IN  IF bounty.raised # ""
          THEN [raised |-> bounty.raised, health |-> health, bounty |-> doc.bounty,
                tier |-> doc.tier]
          ELSE [raised |-> "", health |-> health, bounty |-> bounty.bounty, tier |-> tier]

\* lines 473-512 of _parse_monster_or_summon_page: the divs of the block in
\* document order; an exception ends the parse
RECURSIVE CreatureFields(_, _)
CreatureFields(divs, doc) ==
    IF divs = <<>> \/ doc.raised # "" THEN doc
    ELSE CreatureFields(Tail(divs), CreatureDiv(Head(divs), doc))

\* the divs that follow the first one in the block
MoreDivs == {<<>>, << <<"Bounty", ":", "5">> >>}

(***************************************************************************)
(* The attribute table of a hero, monster or summon page.                  *)
(***************************************************************************)
MaxCols == 2

Headers == {"Speed", "Might"}

\* the text nodes of a cell, as written in the markup
CellTexts == {"", "-", "3", " 3 "}

\* get_text(strip=True)
Strip(raw) == IF raw = " 3 " THEN "3" ELSE raw

\* a td: its text and whether it holds an svg icon
Cells == [raw : CellTexts, svg : BOOLEAN]

\* a table: thead with a tr of th, tbody with a first tr of td
Table(thead, headers, tbody, cells) ==
    [thead |-> thead, headers |-> headers, tbody |-> tbody, cells |-> cells]

Tables ==
    { Table(TRUE, hs, TRUE, cs) :
        hs \in UNION { [1..n -> Headers] : n \in 0..MaxCols },
        cs \in UNION { [1..n -> Cells] : n \in 0..(MaxCols + 1) } }
    \cup { Table(FALSE, <<>>, TRUE, <<[raw |-> "3", svg |-> FALSE]>>),
           Table(TRUE, <<"Speed">>, FALSE, <<>>) }

\* the markup under the page: no "Attributes" heading or no table under it,
\* or a table
NoTable == [thead |-> FALSE, headers |-> <<>>, tbody |-> FALSE, cells |-> <<>>]

\* variant: a cell with an icon is treated like any other cell
CellKeepsText(attributes, attr_name, cell, icon) ==
    IF Strip(cell.raw) # "" /\ Strip(cell.raw) # "-"
      THEN DictPut(attributes, attr_name, Strip(cell.raw))
      ELSE attributes

\* lines 260-272 (hero) and 424-436 (monster, summon): one cell of the row
Cell(attributes, attr_name, cell, icon) ==
    LET cell_text == Strip(cell.raw)
    IN  IF cell_text # "" /\ cell_text # "-" /\ ~cell.svg
          THEN DictPut(attributes, attr_name, cell_text)
          ELSE IF cell.svg THEN DictPut(attributes, attr_name, icon)
          ELSE attributes

\* lines 232-273 and 400-438: for i, cell in enumerate(cells): if i < len(headers)
Attributes(table, icon) ==
    LET RECURSIVE row(_, _)
        row(i, attributes) ==
            IF i > Len(table.cells) THEN attributes
            ELSE row(i + 1, IF i <= Len(table.headers)
                              THEN Cell(attributes, table.headers[i], table.cells[i], icon)
                              ELSE attributes)
    IN  IF table.thead /\ table.tbody THEN row(1, <<>>) ELSE <<>>

\* _parse_hero_page, the attributes of the document
parse_hero_page(table) == [raised |-> "", attributes |-> Attributes(table, "-")]

\* _parse_monster_or_summon_page, the attributes and the block of fields
parse_monster_or_summon_page(table, divs) ==
    LET fields == CreatureFields(divs, CreatureDefaults)
    IN  [raised |-> fields.raised, attributes |-> Attributes(table, "0"),
         health |-> [level_1 |-> fields.health], bounty |-> fields.bounty,
         tier |-> fields.tier]

\* a function was called with these arguments and returned or raised
Called(fn, args, result) == [fn |-> fn, args |-> args, result |-> result]

\* a hero page is parsed
ParseHero ==
    /\ call = NoCall
    /\ \E table \in Tables \cup {NoTable} :
          call' = Called("_parse_hero_page", <<table>>, parse_hero_page(table))
    /\ UNCHANGED <<client, generic>>

\* the table of a monster or summon page is parsed
ParseCreatureTable ==
    /\ call = NoCall
    /\ \E table \in Tables :
          call' = Called("_parse_monster_or_summon_page", <<table, <<>>>>,
                         parse_monster_or_summon_page(table, <<>>))
    /\ UNCHANGED <<client, generic>>

\* the Health / Bounty block of a monster or summon page is parsed
ParseCreature ==
    /\ call = NoCall
    /\ \E text \in Texts, more \in MoreDivs :
          call' = Called("_parse_monster_or_summon_page", <<NoTable, <<text>> \o more>>,
                         parse_monster_or_summon_page(NoTable, <<text>> \o more))
    /\ UNCHANGED <<client, generic>>

NextParse == ParseHero \/ ParseCreatureTable \/ ParseCreature

SpecParse == Init /\ [][NextParse]_vars

\* C11 as stated: whatever the markup, the parser returns a record and
\* raises nothing.
C11_ParserNeverRaises ==
    call.fn \in {"_parse_hero_page", "_parse_monster_or_summon_page"}
        => call.result.raised = ""

\* the call under observation parsed an attribute table
ParsedTable ==
    /\ call.fn \in {"_parse_hero_page", "_parse_monster_or_summon_page"}
    /\ call.args[1].thead
    /\ call.args[1].tbody

\* the columns of the parsed table that have both a header and a cell
Columns == 1..(IF Len(call.args[1].cells) < Len(call.args[1].headers)
                 THEN Len(call.args[1].cells) ELSE Len(call.args[1].headers))

\* the value the parsers write for a cell that holds an icon
IconValue == IF call.fn = "_parse_hero_page" THEN "-" ELSE "0"

\* C15 as stated: every cell under a header is omitted when its text is
\* the dash and recorded with its text unchanged when it has any other
\* text.
C15_TextCellsVerbatim ==
    ParsedTable =>
        \A i \in Columns :
            LET header == call.args[1].headers[i]
                cell == call.args[1].cells[i]
                attributes == call.result.attributes
            IN  (\A j \in Columns : call.args[1].headers[j] = header => j = i) =>
                   /\ cell.raw = "-" => header \notin DOMAIN attributes
                   /\ cell.raw \notin {"", "-"} =>
                         /\ header \in DOMAIN attributes
                         /\ attributes[header] = cell.raw

\* C15, amended: a header has an attribute exactly when one of its cells
\* holds an icon or a text that, stripped of surrounding whitespace, is
\* neither empty nor the dash; the attribute is taken from the last such
\* cell: the icon value ("-" for a hero, "0" for a monster or summon) for a
\* cell with an icon whatever its text, the stripped text otherwise.  Cells
\* beyond the headers and headers beyond the cells give nothing.
C15_CellsByHeader ==
    ParsedTable =>
        LET headers == call.args[1].headers
            cells == call.args[1].cells
            attributes == call.result.attributes
            written(header) ==
                { i \in Columns : /\ headers[i] = header
                                  /\ \/ cells[i].svg
                                     \/ Strip(cells[i].raw) \notin {"", "-"} }
            last(header) == CHOOSE i \in written(header) : \A j \in written(header) : j <= i
        IN  /\ DOMAIN attributes = { header \in Headers : written(header) # {} }
            /\ \A header \in DOMAIN attributes :
                  attributes[header] = IF cells[last(header)].svg THEN IconValue
                                       ELSE Strip(cells[last(header)].raw)

\* the row [3, -, 3] under the headers [Speed, Might] gave {Speed: "3"},
\* and the third cell gave nothing
C15_SpeedMightRow ==
    /\ call.fn = "_parse_hero_page"
    /\ call.args[1].thead /\ call.args[1].tbody
    /\ call.args[1].headers = <<"Speed", "Might">>
    /\ call.args[1].cells = <<[raw |-> "3", svg |-> FALSE], [raw |-> "-", svg |-> FALSE],
                              [raw |-> "3", svg |-> FALSE]>>
    /\ DOMAIN call.result.attributes = {"Speed"}
    /\ call.result.attributes["Speed"] = "3"

(***************************************************************************)
(* The Category Classifier and the Link Discoverer, as functions of a URL  *)
(* and of the anchors of a listing page.                                   *)
(***************************************************************************)
MaxPath == 4

MaxAnchors == 3

\* the pieces a path is written with; "heroes" followed by "que" is the
\* path segment "heroesque"
PathTokens == {"/", "gods", "heroes", "pages", "conditions", "que"}

Origins == {BASE_URL, <<"https://elsewhere.example">>}

ClassifiedURLs ==
    { origin \o path : origin \in Origins,
                       path \in UNION { [1..n -> PathTokens] : n \in 0..MaxPath } }

\* the hrefs an anchor of a listing page can carry (href=True matches an
\* empty href too)
Hrefs ==
    { <<"/", "heroes", "/", "aria">>,
      BASE_URL \o <<"/", "heroes", "/", "aria">>,
      BASE_URL \o <<"/", "heroes", "/", "brok">>,
      <<"/", "heroes">>,
      <<"/", "gods", "/", "zed">>,
      <<"https://elsewhere.example", "/", "heroes", "/", "aria">>,
      <<>> }

\* list(s): the elements of a set, each once, in the order the set iterates
ListOf(set) ==
    { list \in [1..Cardinality(set) -> set] : Range(list) = set }

\* lines 1090-1092 of request_handler
Classified(url) == [category |-> get_category_from_url(url), is_list_page |-> is_list_page(url)]

\* a URL is classified
Classify ==
    /\ call = NoCall
    /\ \E url \in ClassifiedURLs :
          call' = Called("_get_category_from_url", <<url>>, Classified(url))
    /\ UNCHANGED <<client, generic>>

\* the links of a listing page are extracted twice from the same markup
Discover ==
    /\ call = NoCall
    /\ \E hrefs \in UNION { [1..n -> Hrefs] : n \in 0..MaxAnchors },
          root \in {CategoryUrl("heroes"), CategoryUrl("gods")} :
          \E first \in ListOf(extract_list_page_links(hrefs, root)),
             second \in ListOf(extract_list_page_links(hrefs, root)) :
             call' = Called("_extract_list_page_links", <<hrefs, root>>,
                            [first |-> first, second |-> second])
    /\ UNCHANGED <<client, generic>>

NextUrl == Classify \/ Discover

SpecUrl == Init /\ [][NextUrl]_vars

\* the category roots a URL starts with
RootsOf(url) == { k \in DOMAIN CATEGORIES : StartsWith(url, CATEGORIES[k].url) }

\* C13: for every URL the classifier answers; the URL is a listing page
\* exactly when it equals a category root; it starts with at most one root
\* (no root is a prefix of another root) and its category is the name of
\* that root, or "unknown" when it starts with none.
C13_ClassifierByPrefix ==
    /\ \A j, k \in DOMAIN CATEGORIES :
          StartsWith(CATEGORIES[j].url, CATEGORIES[k].url) => j = k
    /\ call.fn = "_get_category_from_url" =>
          LET url == call.args[1]
          IN  /\ call.result.is_list_page = (\E k \in DOMAIN CATEGORIES : url = CATEGORIES[k].url)
              /\ Cardinality(RootsOf(url)) <= 1
              /\ RootsOf(url) = {} => call.result.category = "unknown"
              /\ \A k \in RootsOf(url) : call.result.category = CATEGORIES[k].name

\* a URL that only begins like the heroes root ("/heroesque/") was
\* classified as a hero page and not as a listing page
C13_PrefixNotRoot ==
    /\ call.fn = "_get_category_from_url"
    /\ call.args[1] = BASE_URL \o <<"/", "heroes", "que", "/">>
    /\ call.result.category = "heroes"
    /\ ~call.result.is_list_page

\* C14: two extractions from the same anchors and root return the same set
\* of URLs; neither list holds a URL twice; every URL returned starts with
\* the listing root and is not the root; the URLs returned are those of the
\* anchors, an href beginning with "/" being resolved against the origin.
C14_LinksIdempotentDistinct ==
    call.fn = "_extract_list_page_links" =>
        LET hrefs == call.args[1]
            root == call.args[2]
            first == call.result.first
            second == call.result.second
        IN  /\ Range(first) = Range(second)
            /\ \A j, k \in DOMAIN first : first[j] = first[k] => j = k
            /\ \A j, k \in DOMAIN second : second[j] = second[k] => j = k
            /\ \A url \in Range(first) :
                  /\ StartsWith(url, root)
                  /\ url # root
                  /\ \E k \in DOMAIN hrefs :
                        \/ url = hrefs[k]
                        \/ hrefs[k] # <<>> /\ hrefs[k][1] = "/" /\ url = BASE_URL \o hrefs[k]

\* a relative href, the same page as an absolute href and the listing page
\* itself were anchors of the heroes listing: one link came back
C14_DuplicateAndRoot ==
    /\ call.fn = "_extract_list_page_links"
    /\ call.args[1] = << <<"/", "heroes", "/", "aria">>,
                         BASE_URL \o <<"/", "heroes", "/", "aria">>,
                         <<"/", "heroes">> >>
    /\ call.args[2] = CategoryUrl("heroes")
    /\ call.result.first = <<BASE_URL \o <<"/", "heroes", "/", "aria">>>>

\* the documents of one kind among those the assembler yielded
Yielded(kind) == SelectSeq(call.result, LAMBDA doc : doc.kind = kind)

\* C17: the assembler yields as many documents as the run's result holds
\* pages, abilities, artefacts, definitions, conditions, FAQs and errata;
\* for every title captured in the run exactly one ability document, whose
\* entity list is that of all the captures of the title; and every page
\* record and leaf record of the result once, in the result's order.
C17_OneDocumentPerRecord ==
    call.fn = "get_docs" =>
        /\ Len(call.result) = Summary.total
        /\ \A k \in DOMAIN reveals :
              Cardinality({ d \in DOMAIN call.result :
                              /\ call.result[d].kind = "ability"
                              /\ call.result[d].title = reveals[k].title }) = 1
        /\ \A d \in DOMAIN Yielded("ability") :
              LET doc == Yielded("ability")[d]
                  R == RevealsOf(doc.title)
              IN  /\ R # <<>>
                  /\ [k \in DOMAIN doc.entities |-> <<doc.entities[k].name, doc.entities[k].url>>]
                       = FirstSeen([k \in DOMAIN R |-> <<R[k].name, R[k].url>>])
        /\ [k \in DOMAIN Yielded("page") |-> Yielded("page")[k].url]
             = [k \in DOMAIN pages_data |-> pages_data[k].url]
        /\ \A kind \in {"artifact", "definition", "condition", "faq", "erratum"} :
              LET list == CASE kind = "artifact"   -> artifact_documents
                            [] kind = "definition" -> definition_documents
                            [] kind = "condition"  -> condition_documents
                            [] kind = "faq"        -> faq_documents
                            [] kind = "erratum"    -> errata_documents
              IN  [k \in DOMAIN Yielded(kind) |-> Yielded(kind)[k].url]
                    = [k \in DOMAIN list |-> list[k].url]

\* the documents of a run in which two hero pages revealed the same title:
\* the title has one document with both entities, beside the page documents
C17_SharedAbilityYielded ==
    /\ call.fn = "get_docs"
    /\ Len(Yielded("page")) >= 2
    /\ \E d \in DOMAIN Yielded("ability") :
          /\ Len(Yielded("ability")[d].entities) = 2
          /\ Len(RevealsOf(Yielded("ability")[d].title)) >= 2

\* C16: the id of a page document is the hash of its URL, the id of an
\* ability document the hash of its title, the id of a FAQ document the hash
\* of its page's URL with "#faq-" and its ordinal, the id of any other
\* sub-item the hash of its page's URL with "#" and its name: in every
\* run, whatever the order of the visits, the time of the assembly and the
\* other documents.
C16_IdsByKey ==
    call.fn = "get_docs" =>
        \A d \in DOMAIN call.result :
            LET doc == call.result[d]
            IN  /\ doc.kind = "page" => doc.id = Sha256(doc.url)
                /\ doc.kind = "ability" => doc.id = Sha256(doc.title)
                /\ doc.kind = "faq" =>
                      \E i \in 0..(Len(LeafItems(doc.source_page)) - 1) :
                          doc.id = Sha256(<<doc.source_page, "#", <<"faq-", i>>>>)
                /\ doc.kind \in {"artifact", "definition", "condition", "erratum"} =>
                      doc.id = Sha256(<<doc.source_page, "#", doc.title>>)

\* documents assembled at the second clock value, among them a page, an
\* ability and two FAQs of one page that differ in their ordinal only
C16_PageAbilityFaqs ==
    /\ call.fn = "get_docs"
    /\ call.args = <<"t2">>
    /\ Yielded("page") # <<>>
    /\ Yielded("ability") # <<>>
    /\ \E i, j \in DOMAIN Yielded("faq") :
          /\ Yielded("faq")[i].title = Yielded("faq")[j].title
          /\ Yielded("faq")[i].source_page = Yielded("faq")[j].source_page
          /\ Yielded("faq")[i].id # Yielded("faq")[j].id

(***************************************************************************)
(* The generic crawler: its methods and its request handler.  A step is    *)
(* the code between two awaits.                                            *)
(***************************************************************************)
\* a client is constructed from a configuration
GenericNew ==
    /\ generic.running = ""
    /\ \E seed_urls \in {<<>>, <<GenericSeed>>, <<GenericSeed, GenericPage>>},
          max_pages \in 1..MaxPages :
          generic' = CrawleeClient(seed_urls, max_pages)
    /\ UNCHANGED <<client, call>>

\* variant: crawl_pages with the test of seed_urls after crawler.run
CrawlPagesChecksLate(g) ==
    [g EXCEPT !.page_count = 0, !.pages_data = <<>>, !.crawlers = @ + 1,
              !.running = "crawl_pages", !.queue = Range(g.seed_urls),
              !.seen = Range(g.seed_urls), !.visits = 0,
                     !.finished = 0, !.retries = 0]

\* crawl_pages up to its await of crawler.run (lines 313-334)
CrawlPages(g) ==
    IF g.seed_urls = <<>>
      THEN [g EXCEPT !.last["crawl_pages"] = "ValueError"]
      ELSE [g EXCEPT !.page_count = 0, !.pages_data = <<>>, !.crawlers = @ + 1,
                     !.running = "crawl_pages", !.queue = Range(g.seed_urls),
                     !.seen = Range(g.seed_urls), !.visits = 0,
                     !.finished = 0, !.retries = 0]

\* ping up to its await of crawler.run (lines 34-47)
Ping(g) ==
    IF g.seed_urls = <<>>
      THEN [g EXCEPT !.last["ping"] = "ValueError"]
      ELSE [g EXCEPT !.crawlers = @ + 1, !.running = "ping",
                     !.queue = {g.seed_urls[1]}, !.seen = {g.seed_urls[1]},
                     !.visits = 0, !.finished = 0, !.retries = 0]

\* max_requests_per_crawl of the crawler that is running
Budget(g) == IF g.running = "ping" THEN 1 ELSE g.max_pages

GenericCrawlPages ==
    /\ generic.running = ""
    /\ generic.crawlers < MaxCrawlers
    /\ generic' = CrawlPages(generic)
    /\ UNCHANGED <<client, call>>

GenericPing ==
    /\ generic.running = ""
    /\ generic.crawlers < MaxCrawlers
    /\ generic' = Ping(generic)
    /\ UNCHANGED <<client, call>>

\* CrawleeDataSource.validate_config: the validation of the framework's base
\* class returns or raises; then the seed URLs are tested (every seed of the
\* model starts with https://)
GenericValidateConfig ==
    /\ generic.running = ""
    /\ \E base \in {"", "ConfigurableFieldValueError"} :
          generic' = [generic EXCEPT !.last["validate_config"] =
                        IF base # "" THEN base
                        ELSE IF generic.seed_urls = <<>> THEN "ValueError"
                        ELSE "returned"]
    /\ UNCHANGED <<client, call>>

\* the handlers of the generic crawler that are running
GenericInFlight == { u \in GenericURLs : generic.h[u].pc # "idle" }

\* the crawler's test of max_requests_per_crawl before it starts a task: the
\* requests it has handled so far are compared with the budget, those in
\* flight are not counted ("due to concurrency settings, the actual number
\* of pages visited may slightly exceed this value")
HandledBelow(g, budget) == g.finished < budget

\* the crawler hands a request to the handler, which runs to its first
\* await: the page limit is tested first (lines 128-165)
GenericDispatch(u) ==
    /\ generic.running # ""
    /\ u \in generic.queue
    /\ generic.h[u].pc = "idle"
    /\ HandledBelow(generic, Budget(generic))
    /\ generic' = [generic EXCEPT
                     !.queue = @ \ {u},
                     !.visits = @ + 1,
                     !.finished = IF generic.page_count >= generic.max_pages
                                    THEN @ + 1 ELSE @,
                     !.h[u].pc = IF generic.page_count >= generic.max_pages
                                   THEN "idle" ELSE "load"]
    /\ UNCHANGED <<client, call>>

\* the control after this one, or the recording of the page after the last
GenericLoopFrom(loc, i) ==
    IF i <= MaxButtons
      THEN [loc EXCEPT !.pc = "check", !.i = i, !.k = 0]
      ELSE [loc EXCEPT !.pc = "record", !.i = i, !.k = 0]

\* wait_for_load_state and page.content return and the buttons are located
\* (lines 166-191), or locator.all raises (the outer except, line 279); or the
\* load raises and the request fails: the crawler retries it or gives it up
GenericLoad(u) ==
    /\ generic.h[u].pc = "load"
    /\ \/ generic' = [generic EXCEPT !.h[u] = GenericLoopFrom(@, 1)]
       \/ generic' = [generic EXCEPT !.h[u].pc = "record"]
       \/ /\ generic.retries < MaxRetries
          /\ generic' = [generic EXCEPT !.h[u] = GenericIdle, !.retries = @ + 1,
                                        !.queue = @ \cup {u}]
       \/ generic' = [generic EXCEPT !.h[u] = GenericIdle, !.finished = @ + 1]
    /\ UNCHANGED <<client, call>>

\* is_visible, is_enabled and inner_text (lines 197-200): the control is
\* clickable; or it is not, or a call raises, and the loop continues
GenericCheck(u) ==
    /\ generic.h[u].pc = "check"
    /\ \/ generic' = [generic EXCEPT !.h[u].pc = "click"]
       \/ generic' = [generic EXCEPT !.h[u] = GenericLoopFrom(@, @.i + 1)]
    /\ UNCHANGED <<client, call>>

\* button.click, wait_for_timeout(500) and the capture (lines 203-243)
GenericClick(u) ==
    /\ generic.h[u].pc = "click"
    /\ \/ \* an overlay opens and its text is captured
          generic' = [generic EXCEPT !.h[u].pc = "escape", !.h[u].overlay = TRUE,
                                     !.h[u].accumulated_text = @ + 1]
       \/ \* an overlay opens; page.content raises inside the inner try, or
          \* the text is too short: nothing is captured
          generic' = [generic EXCEPT !.h[u].pc = "escape", !.h[u].overlay = TRUE]
       \/ \* nothing opens
          generic' = [generic EXCEPT !.h[u].pc = "escape"]
       \/ \* button.click raises: except, continue
          generic' = [generic EXCEPT !.h[u] = GenericLoopFrom(@, @.i + 1)]
       \/ \* wait_for_timeout(500) raises after the click: except, continue
          generic' = [generic EXCEPT
                        !.h[u] = GenericLoopFrom([@ EXCEPT !.overlay = TRUE], @.i + 1)]
    /\ UNCHANGED <<client, call>>

\* variant: the close selectors are tried only while an overlay is open
AfterEscapeIfOpen(loc, open) ==
    IF open THEN [loc EXCEPT !.pc = "close", !.k = 1, !.overlay = TRUE]
    ELSE GenericLoopFrom([loc EXCEPT !.overlay = FALSE], loc.i + 1)

\* after the try around keyboard.press("Escape") (lines 246-251): the loop
\* over close_selectors begins, whether the overlay is open or not
AfterEscape(loc, open) == [loc EXCEPT !.pc = "close", !.k = 1, !.overlay = open]

\* keyboard.press("Escape") and wait_for_timeout(200): the key closes the
\* overlay or the page ignores it; an exception is passed over
GenericEscape(u) ==
    /\ generic.h[u].pc = "escape"
    /\ \E open \in {FALSE, generic.h[u].overlay} :
          generic' = [generic EXCEPT !.h[u] = AfterEscape(@, open)]
    /\ UNCHANGED <<client, call>>

\* close_btn.click and wait_for_timeout(200) returned: break (line 269)
AfterCloseClick(loc, open) == GenericLoopFrom([loc EXCEPT !.overlay = open], loc.i + 1)

\* the selector matched nothing visible, or a call on it raised (pass): the
\* next selector, or the next control after the last selector
AfterCloseMiss(loc, open) ==
    IF loc.k < Len(CloseSelectors)
      THEN [loc EXCEPT !.k = @ + 1, !.overlay = open]
      ELSE GenericLoopFrom([loc EXCEPT !.overlay = open], loc.i + 1)

\* one turn of the loop over close_selectors (lines 263-272)
GenericClose(u) ==
    /\ generic.h[u].pc = "close"
    /\ \/ \* not visible, or is_visible or click raises
          generic' = [generic EXCEPT !.h[u] = AfterCloseMiss(@, @.overlay)]
       \/ \* the first match is the close button of the open overlay
          /\ generic.h[u].overlay
          /\ generic' = [generic EXCEPT !.h[u] = AfterCloseClick(@, FALSE)]
       \/ \* the first match is a visible element outside any overlay
          generic' = [generic EXCEPT !.h[u] = AfterCloseClick(@, @.overlay)]
       \/ \* the click closes the overlay and wait_for_timeout(200) raises
          /\ generic.h[u].overlay
          /\ generic' = [generic EXCEPT !.h[u] = AfterCloseMiss(@, FALSE)]
    /\ UNCHANGED <<client, call>>

\* the page is recorded and counted (lines 287-305); links are enqueued
\* when the page limit is not reached (depth is below max_crawl_depth on
\* this site)
GenericRecord(u) ==
    /\ generic.h[u].pc = "record"
    /\ generic' = [generic EXCEPT
                     !.pages_data = Append(@, u),
                     !.page_count = @ + 1,
                     !.finished = IF generic.page_count + 1 < generic.max_pages
                                    THEN @ ELSE @ + 1,
                     !.h[u] = IF generic.page_count + 1 < generic.max_pages
                                THEN [@ EXCEPT !.pc = "enqueue"]
                                ELSE GenericIdle]
    /\ UNCHANGED <<client, call>>

\* context.enqueue_links() returns: the links not seen yet are queued
GenericEnqueue(u) ==
    /\ generic.h[u].pc = "enqueue"
    /\ generic' = [generic EXCEPT
                     !.queue = @ \cup (GenericLinks(u) \ generic.seen),
                     !.seen = @ \cup GenericLinks(u),
                     !.finished = @ + 1,
                     !.h[u] = GenericIdle]
    /\ UNCHANGED <<client, call>>

\* crawler.run returns; crawl_pages or ping returns
GenericFinish ==
    /\ generic.running # ""
    /\ GenericInFlight = {}
    /\ generic.queue = {} \/ ~HandledBelow(generic, Budget(generic))
    /\ generic' = [generic EXCEPT !.running = "", !.last[generic.running] = "returned"]
    /\ UNCHANGED <<client, call>>

NextGeneric ==
    \/ GenericNew
    \/ GenericCrawlPages
    \/ GenericPing
    \/ GenericValidateConfig
    \/ GenericFinish
    \/ \E u \in GenericURLs :
          \/ GenericDispatch(u)
          \/ GenericLoad(u)
          \/ GenericCheck(u)
          \/ GenericClick(u)
          \/ GenericEscape(u)
          \/ GenericClose(u)
          \/ GenericRecord(u)
          \/ GenericEnqueue(u)

SpecGeneric == Init /\ [][NextGeneric]_vars

\* C18: a client configured with no seed URL never creates a crawler, never
\* runs one, visits no page and records none; its crawl_pages and ping, and
\* validate_config of its data source, end by raising whenever they are
\* called.
C18_NoSeedNoCrawl ==
    generic.seed_urls = <<>> =>
        /\ generic.crawlers = 0
        /\ generic.running = ""
        /\ generic.visits = 0
        /\ GenericInFlight = {}
        /\ generic.page_count = 0
        /\ generic.pages_data = <<>>
        /\ generic.last["crawl_pages"] \in {"none", "ValueError"}
        /\ generic.last["ping"] \in {"none", "ValueError"}
        /\ generic.last["validate_config"] \notin {"returned"}

\* the three methods were called on a client without seed URLs and each
\* raised
C18_AllThreeRaised ==
    /\ generic.seed_urls = <<>>
    /\ generic.last["crawl_pages"] = "ValueError"
    /\ generic.last["ping"] = "ValueError"
    /\ generic.last["validate_config"] = "ValueError"

DescriptionInOrder(u, loc) ==
    LET R == CapturedOn(u)
        fragments == [k \in DOMAIN R |-> <<R[k].title, R[k].text>>]
    IN  /\ loc.described <= 1
        /\ loc.pc = "return" /\ loc.description_button # 0 => loc.described = 1
        /\ loc.described = 1 =>
              /\ loc.pc = "return"
              /\ loc.description_button # 0
              /\ loc.attempted = loc.other_buttons
              /\ loc.abilities_data.accumulated_text \in
                    {fragments, Append(fragments, <<"Description", "main">>)}

\* C21: the control held as the description control is clicked once, when
\* every other control has been attempted; after that click the handler
\* sends no key and closes nothing, it only records its page; the text of
\* the description, if captured, is the last fragment, and the fragments of
\* the abilities are kept whether the click succeeded or failed.
C21_DescriptionLast ==
    [][\A u \in URLs :
          /\ DescriptionInOrder(u, h'[u])
          /\ h[u].described = 1 =>
                \/ h'[u] = h[u]
                \/ /\ h'[u] = Idle
                   /\ pages_data'[Len(pages_data')].text =
                         <<"static">> \o h[u].abilities_data.accumulated_text]_vars

\* both abilities of a hero page were captured, then its description
C21_DescribedAfterTwo ==
    /\ h[Aria].pc = "return"
    /\ h[Aria].described = 1
    /\ Len(h[Aria].clicked) = 2
    /\ h[Aria].abilities_data.accumulated_text =
          << <<"Ward", "Deal 2 damage. Cost: 2F">>,
             <<"Strike (1AP)", "Deal 2 damage. Cost: 2F">>,
             <<"Description", "main">> >>

(***************************************************************************)
(* Listing pages.                                                          *)
(***************************************************************************)
\* the handler of u returns in this step
Returns(u) == u \in completed' /\ u \notin completed

\* the links the Link Discoverer finds on listing page u
LinksOn(u) == extract_list_page_links(Anchors(u), u)

\* the leaf lists by category
LeafLists ==
    [gamedefinitions |-> definition_documents, conditions |-> condition_documents,
     faqs |-> faq_documents, errata |-> errata_documents]

LeafKind ==
    [gamedefinitions |-> "game_definition", conditions |-> "condition",
     faqs |-> "faq", errata |-> "erratum"]

\* C22: a listing page other than the artefacts page has every link the
\* Link Discoverer found on it enqueued when its visit returns, and only
\* such a visit adds a request; the visit to the artefacts page adds no
\* request (the page has a link), never waits at add_requests, and appends
\* the artefacts of the modal extraction to the artefact list, which no
\* other visit changes.
C22_LinksFollowedButArtefacts ==
    [][phase = "running" =>
          /\ \A u \in CategoryValues :
                LET category == get_category_from_url(u)
                IN  /\ Returns(u) /\ category # "artefacts" =>
                          /\ LinksOn(u) \subseteq seen'
                          /\ artifact_documents' = artifact_documents
                    /\ Returns(u) /\ category = "artefacts" =>
                          /\ LinksOn(u) # {}
                          /\ seen' = seen /\ queue' = queue
                          /\ artifact_documents' \in
                                { artifact_documents,
                                  artifact_documents \o
                                    [k \in DOMAIN ArtifactCards |-> ArtifactDoc(u, ArtifactCards[k])] }
                    /\ category = "artefacts" => h'[u].pc # "enqueue"
          /\ seen' # seen =>
                \E u \in CategoryValues :
                    /\ get_category_from_url(u) # "artefacts"
                    /\ h[u].pc = "enqueue" /\ h'[u] # h[u]
                    /\ (seen' \ seen) \subseteq LinksOn(u)
          /\ artifact_documents' # artifact_documents =>
                Returns(CategoryUrl("artefacts"))]_vars

\* the heroes page and the artefacts page were visited: the two heroes are
\* requests, the artefact the artefacts page links to is not, and the
\* artefact of the page's card is in the list
C22_HeroesFollowedArtefactsNot ==
    /\ {CategoryUrl("heroes"), CategoryUrl("artefacts")} \subseteq completed
    /\ {Aria, Brok} \subseteq seen
    /\ BASE_URL \o <<"/", "artefacts", "/", "orb">> \notin seen
    /\ Len(artifact_documents) = 1

\* C23: when the visit to the listing page of gamedefinitions, conditions,
\* faqs or errata returns, the leaf records of the page are appended to the
\* list of its category, the other lists are untouched, and one page record
\* of the listing page is appended and counted; when the visit to the
\* listing page of gods, heroes, monsters or summons returns, no page
\* record and no leaf record was added.
C23_LeafListingsRecorded ==
    [][phase = "running" =>
          \A u \in CategoryValues :
              LET category == get_category_from_url(u)
              IN  /\ Returns(u) /\ category \in DOMAIN LeafLists =>
                        /\ LeafLists'[category] =
                              LeafLists[category] \o LeafDocs(u, LeafKind[category])
                        /\ LeafDocs(u, LeafKind[category]) # <<>>
                        /\ \A c \in DOMAIN LeafLists \ {category} : LeafLists'[c] = LeafLists[c]
                        /\ Len(pages_data') = Len(pages_data) + 1
                        /\ page_count' = page_count + 1
                        /\ pages_data'[Len(pages_data')].url = u
                        /\ pages_data'[Len(pages_data')].category = PageCategory(u, category)
                        /\ Cardinality({ k \in DOMAIN pages_data' : pages_data'[k].url = u }) = 1
                  /\ Returns(u) /\ category \in {"gods", "heroes", "monsters", "summons"} =>
                        /\ UNCHANGED <<pages_data, page_count, leaves>>
                        /\ \A k \in DOMAIN pages_data' : pages_data'[k].url # u]_vars

\* the visits to the faqs page and to the heroes page returned: the two
\* FAQs and the one record of the faqs page are all there is
C23_FaqsRecordedHeroesNot ==
    /\ {CategoryUrl("faqs"), CategoryUrl("heroes")} \subseteq completed
    /\ Len(faq_documents) = 2
    /\ Len(pages_data) = 1
    /\ pages_data[1].category = "faqs_page"
    /\ page_count = 1

(***************************************************************************)
(* Where the Revealer runs.                                                *)
(***************************************************************************)
\* the detail pages of heroes, monsters and summons
RevealerPage(u) ==
    ~is_list_page(u) /\ get_category_from_url(u) \in {"heroes", "monsters", "summons"}

Zed == BASE_URL \o <<"/", "gods", "/", "zed">>

C25_CounterIsRecordCount ==
    /\ page_count = Len(pages_data)
    /\ page_count = Len(crawl_results.pages)
    /\ page_count = Summary.pages

\* a handler is suspended after a click while the record of another page
\* has been appended and counted
C25_CountedWhileSuspended ==
    /\ h[Aria].pc = "dismiss"
    /\ page_count = 1
    /\ Len(pages_data) = 1
    /\ pages_data[1].url = CategoryUrl("faqs")

(***************************************************************************)
(* Depth and termination of a run.  The crawler, once run, keeps handing   *)
(* out requests while the queue holds one and the budget is not used up,   *)
(* and every await of a handler returns or raises (Playwright's calls time *)
(* out): the steps of a run other than the caller's crawl_pages and        *)
(* get_docs are taken sooner or later.                                     *)
(***************************************************************************)
RunStep ==
    \/ CrawlFinish
    \/ \E u \in URLs :
          \/ Dispatch(u) \/ PageLoaded(u) \/ PageLoadFails(u) \/ Enqueued(u)
          \/ EnqueueFails(u) \/ ArtifactsExtracted(u) \/ Enumerated(u)
          \/ RevealAborted(u) \/ Check(u) \/ Click(u) \/ Dismiss(u)
          \/ Description(u) \/ Return(u)

SpecFair == Spec /\ WF_vars(RunStep)

\* every request added in a step is a link of a listing page whose handler
\* waits at add_requests, is no listing page and has the listing's
\* category; the handler of a detail page adds no request
TwoLevels ==
    [][phase = "running" =>
          /\ \A link \in seen' \ seen :
                \E u \in CategoryValues :
                    /\ h[u].pc = "enqueue" /\ link \in h[u].links
                    /\ ~is_list_page(link)
                    /\ get_category_from_url(link) = get_category_from_url(u)
          /\ \A u \in URLs : ~is_list_page(u) /\ h'[u] # h[u] =>
                /\ seen' = seen
                /\ queue' \subseteq queue \cup {u}
                /\ h'[u].links = {}]_vars

IdForm(doc) ==
    CASE doc.kind = "page"    -> "url"
      [] doc.kind = "ability" -> "title"
      [] doc.kind = "faq"     -> "url#faq-n"
      [] OTHER                -> "url#name"

\* C27: no two documents the assembler yields for a run carry the same id
\* (strings of different forms are different strings).
C27_IdsDistinct ==
    call.fn = "get_docs" =>
        \A i, j \in DOMAIN call.result :
            /\ IdForm(call.result[i]) = IdForm(call.result[j])
            /\ call.result[i].id = call.result[j].id
            => i = j

(***************************************************************************)
(* Page records and the store.                                             *)
(***************************************************************************)
\* the ability names a page record lists
ListedOn(page) ==
    Range(page.innate_abilities) \cup Range(page.active_abilities)
       \cup Range(page.combat_manoeuvres)

\* C28: every ability name listed in a page record of the run has a record
\* in the store whose entity list holds the page's title and URL; and every
\* entity reference of a record in the store is the title and URL of a page
\* whose handler captured an ability of the record's title in this run.
C28_PagesAndStoreAgree ==
    /\ \A p \in DOMAIN pages_data : \A name \in ListedOn(pages_data[p]) :
          \E d \in DOMAIN Docs :
              /\ Docs[d].title = name
              /\ \E e \in DOMAIN Docs[d].entities :
                    /\ Docs[d].entities[e].name = pages_data[p].title
                    /\ Docs[d].entities[e].url = pages_data[p].url
    /\ \A d \in DOMAIN Docs : \A e \in DOMAIN Docs[d].entities :
          \E r \in DOMAIN reveals :
              /\ reveals[r].title = Docs[d].title
              /\ reveals[r].url = Docs[d].entities[e].url
              /\ reveals[r].name = Docs[d].entities[e].name
              /\ PageTitle(reveals[r].url) = reveals[r].name

\* two hero pages are recorded, both list the ability they share, and its
\* record in the store names both
C28_TwoPagesOneAbility ==
    /\ \E i, j \in DOMAIN pages_data :
          /\ pages_data[i].url = Aria /\ pages_data[j].url = Brok
          /\ "Strike (1AP)" \in ListedOn(pages_data[i]) \cap ListedOn(pages_data[j])
    /\ \E d \in DOMAIN Docs :
          /\ Docs[d].title = "Strike (1AP)"
          /\ Len(Docs[d].entities) = 2

(***************************************************************************)
(* The partition of the controls.                                          *)
(***************************************************************************)
\* the ability names a handler has collected so far
Collected(loc) ==
    Range(loc.abilities_data.innate_abilities)
       \cup Range(loc.abilities_data.active_abilities)
       \cup Range(loc.abilities_data.combat_manoeuvres)

\* C30: a control whose label held "description" when the controls were
\* enumerated is never taken by the loop over the other controls, its label
\* enters none of the three lists and no record of the store bears it; a
\* control that was not visible or not enabled at the enumeration is
\* neither taken by the loop nor clicked as the description control.
C30_DescriptionAndInvisibleKeptOut ==
    /\ \A u \in URLs :
          LET loc == h[u]
              all_buttons == AllButtons(LayoutOf(u))
          IN  /\ \A b \in Range(loc.attempted) \cup Range(loc.clicked) :
                    /\ ~HasDescription(Lower(all_buttons[b].label))
                    /\ b \notin loc.invisible
              /\ loc.description_button # 0 =>
                    /\ HasDescription(Lower(all_buttons[loc.description_button].label))
                    /\ loc.description_button \notin loc.invisible
              /\ loc.described > 0 => loc.description_button # 0
              /\ \A name \in Collected(loc) : ~HasDescription(Lower(name))
    /\ \A d \in DOMAIN Docs : ~HasDescription(Lower(Docs[d].title))
    /\ \A r \in DOMAIN reveals : ~HasDescription(Lower(reveals[r].title))

\* a hero page whose second control was not visible at the enumeration: the
\* first control was clicked and captured, then the description control
C30_InvisibleSkippedDescriptionApart ==
    /\ h[Aria].pc = "return"
    /\ h[Aria].invisible = {2}
    /\ h[Aria].clicked = <<1>>
    /\ h[Aria].description_button = 3
    /\ h[Aria].described = 1
    /\ Collected(h[Aria]) = {"Strike (1AP)"}

(***************************************************************************)
(* The page limit of the generic crawler.                                  *)
(***************************************************************************)
\* C29: in one run the generic crawler never records more than max_pages
\* pages, whatever the number of handlers in flight that passed the page-limit
\* test before any of them recorded its page.
C29_AtMostMaxPages ==
    /\ Len(generic.pages_data) <= generic.max_pages
    /\ generic.page_count <= generic.max_pages
====
